---- MODULE Spec2Model ----
(***************************************************************************)
(* Casino card game engine of casino-mobile: the server-side game state,   *)
(* the client-side action determination (utils/actionDeterminer.ts) and    *)
(* the game-actions handlers the server applies to the state.              *)
(*                                                                         *)
(* The deck is scaled down: NumSuits suits of NumRanks ranks, HandSize     *)
(* cards dealt to each player (the program uses 4, 10 and 10).  Every      *)
(* handler is a pure operator from a game state to a game state, as in the *)
(* source, and each action of the state machine is one message submitted   *)
(* by a player, carried through the client gate and the server handler.    *)
(***************************************************************************)
EXTENDS Integers, Sequences, FiniteSets, TLC

\* ---------------------------------------------------------------- bounds
NumSuits == 2
NumRanks == 6
HandSize == 3
MaxSteps == 6
MaxTable == 4
MaxInflight == 2
MaxSessionSteps == 3

\* ------------------------------------------------------- program constants
MAX_STACK_SIZE == 5
MaxBuildValue == 10
NumPlayers == 2

Players == 0 .. (NumPlayers - 1)

\* null and undefined are the empty tuple; a present value v is <<v>>.
null == <<>>

\* --------------------------------------------------------------- helpers
Min(a, b) == IF a < b THEN a ELSE b

SeqToSet(s) == {s[i] : i \in 1 .. Len(s)}

Reverse(s) == [i \in 1 .. Len(s) |-> s[Len(s) + 1 - i]]

\* Array.prototype.splice(i, 1): the array without its element at index i
RemoveAt(s, i) == SubSeq(s, 1, i - 1) \o SubSeq(s, i + 1, Len(s))

\* Array.prototype.findIndex: the first index satisfying Test, 0 if none
FindIndex(s, Test(_)) ==
  IF \E i \in 1 .. Len(s) : Test(s[i])
  THEN CHOOSE i \in 1 .. Len(s) : Test(s[i]) /\ \A j \in 1 .. (i - 1) : ~Test(s[j])
  ELSE 0

RECURSIVE Zip(_, _)
Zip(a, b) ==
  IF a = <<>> THEN b
  ELSE IF b = <<>> THEN a
  ELSE <<Head(a), Head(b)>> \o Zip(Tail(a), Tail(b))

RECURSIVE Flatten(_)
Flatten(ss) == IF ss = <<>> THEN <<>> ELSE Head(ss) \o Flatten(Tail(ss))

\* ----------------------------------------------------------------- cards
suits == SubSeq(<<"S", "H", "D", "C">>, 1, Min(NumSuits, 4))

ranks == SubSeq(<<"A", "2", "3", "4", "5", "6", "7", "8", "9", "10">>, 1, Min(NumRanks, 10))

\* parseInt(rank, 10) on the decimal numerals the deck uses
parseInt(str) ==
  LET numerals == <<"1", "2", "3", "4", "5", "6", "7", "8", "9", "10">>
  IN  CHOOSE n \in 1 .. 10 : numerals[n] = str

rankValue(rank) == IF rank = "A" THEN 1 ELSE parseInt(rank)

\* one element of the deck as initializeGame pushes it
Card(suit, rank) ==
  [suit |-> suit, rank |-> rank, value |-> IF rank = "A" THEN 1 ELSE parseInt(rank)]

\* the plain card carried by any card-like object (spread copies keep these)
CardOf(c) == [suit |-> c.suit, rank |-> c.rank, value |-> c.value]

\* a card lying loose on the table
LooseCard(c) == [type |-> "loose", suit |-> c.suit, rank |-> c.rank, value |-> c.value]

\* a card inside a temporary stack, tagged with where it came from
StackCard(c, source) ==
  [suit |-> c.suit, rank |-> c.rank, value |-> c.value, source |-> source]

sameCard(a, b) == a.rank = b.rank /\ a.suit = b.suit

\* the deck in creation order: for each suit, for each rank
createDeck ==
  [k \in 1 .. (Len(suits) * Len(ranks)) |->
     Card(suits[((k - 1) \div Len(ranks)) + 1], ranks[((k - 1) % Len(ranks)) + 1])]

DeckSize == Len(createDeck)

\* ------------------------------------------------------ shuffle outcomes
\* Fisher-Yates can produce every permutation; these are the outcomes the
\* model draws from, each given by the order in which deck.pop() deals.
RankMajor ==
  [k \in 1 .. DeckSize |->
     Card(suits[((k - 1) % Len(suits)) + 1], ranks[((k - 1) \div Len(suits)) + 1])]

\* player 0 is dealt the HandSize lowest cards, player 1 the HandSize next
BlockDeal ==
  Zip(SubSeq(RankMajor, 1, HandSize), SubSeq(RankMajor, HandSize + 1, 2 * HandSize))
  \o SubSeq(RankMajor, 2 * HandSize + 1, DeckSize)

\* a deck that pops in the given order
DeckPopping(order) == Reverse(order)

ShuffleOutcomes == {DeckPopping(RankMajor), DeckPopping(BlockDeal)}

\* ----------------------------------------------------- game state access
VARIABLES gameState, lastAction, clock, steps, inflight, waitingPlayers, sockets

vars == <<gameState, lastAction, clock, steps, inflight, waitingPlayers, sockets>>

\* the server's connections: the sockets that may connect, in the order of
\* their ids
MaxSockets == 4

Sockets == 1 .. MaxSockets

\* the lobby once a game has started: the two players' sockets are connected
\* and nobody waits
gameStarted ==
  /\ waitingPlayers = <<>>
  /\ sockets = [s \in Sockets |-> IF s <= NumPlayers THEN "connected" ELSE "new"]

\* a deal in blocks: player 0 takes the first HandSize cards popped, player 1
\* the next HandSize
initializeGameInBlocks(shuffled) ==
  LET n == Len(shuffled)
      dealt(p) == [i \in 1 .. HandSize |-> shuffled[n - (p * HandSize + i - 1)]]
  IN  [deck |-> SubSeq(shuffled, 1, n - 2 * HandSize),
       playerHands |-> [p \in Players |-> dealt(p)],
       tableCards |-> <<>>,
       playerCaptures |-> [p \in Players |-> <<>>],
       currentPlayer |-> 0,
       round |-> 1,
       scores |-> [p \in Players |-> 0],
       gameOver |-> FALSE,
       winner |-> null,
       lastCapturer |-> null,
       scoreDetails |-> null]

\* initializeGame with the shuffle's outcome given: deal HandSize cards to
\* each player alternately from the end of the deck, player 0 first.
initializeGame(shuffled) ==
  LET n == Len(shuffled)
      dealt(p) == [i \in 1 .. HandSize |-> shuffled[n - (2 * (i - 1) + p)]]
  IN  [deck |-> SubSeq(shuffled, 1, n - 2 * HandSize),
       playerHands |-> [p \in Players |-> dealt(p)],
       tableCards |-> <<>>,
       playerCaptures |-> [p \in Players |-> <<>>],
       currentPlayer |-> 0,
       round |-> 1,
       scores |-> [p \in Players |-> 0],
       gameOver |-> FALSE,
       winner |-> null,
       lastCapturer |-> null,
       scoreDetails |-> null]

\* a turn that passes and starts a new round
nextPlayerNewRound(gs) ==
  [gs EXCEPT !.currentPlayer = (gs.currentPlayer + 1) % 2, !.round = gs.round + 1]

\* a turn that does not pass
nextPlayerStays(gs) == gs

\* nextPlayer: advances currentPlayer (0 -> 1, 1 -> 0)
nextPlayer(gs) == [gs EXCEPT !.currentPlayer = (gs.currentPlayer + 1) % 2]

\* an update of the hands and the table that also passes the turn
updateGameStateEndsTurn(gs, playerHands, tableCards) ==
  [gs EXCEPT !.playerHands = playerHands, !.tableCards = tableCards,
             !.currentPlayer = (gs.currentPlayer + 1) % 2]

\* updateGameState(gameState, { playerHands, tableCards }): the state with
\* these two fields replaced and every other field kept
updateGameState(gs, playerHands, tableCards) ==
  [gs EXCEPT !.playerHands = playerHands, !.tableCards = tableCards]

\* removeCardFromHand: the hand without its first card of that rank and suit,
\* and the card removed (null when the hand has no such card)
removeCardFromHand(playerHands, player, card) ==
  LET hand == playerHands[player]
      i == FindIndex(hand, LAMBDA c : sameCard(c, card))
  IN  IF i = 0
      THEN [updatedHands |-> playerHands, cardRemoved |-> null]
      ELSE [updatedHands |-> [playerHands EXCEPT ![player] = RemoveAt(hand, i)],
            cardRemoved |-> <<hand[i]>>]

\* ------------------------------------------------------------- handlers
\* handleTrail: throws when the card is not in the current player's hand
handleTrailThrows(gs, card) ==
  removeCardFromHand(gs.playerHands, gs.currentPlayer, card).cardRemoved = null

handleTrail(gs, card) ==
  LET r == removeCardFromHand(gs.playerHands, gs.currentPlayer, card)
      newTableCards == Append(gs.tableCards, LooseCard(r.cardRemoved[1]))
      next == (gs.currentPlayer + 1) % 2
  IN  [gs EXCEPT !.playerHands = r.updatedHands,
                 !.tableCards = newTableCards,
                 !.currentPlayer = next,
                 !.lastCapturer = null]

\* ------------------------------------------------ client: determineActions
\* the item a player drags out of the hand
DraggedItem(card, player) == [card |-> card, source |-> "hand", player |-> player]

\* what the drop zones report: the empty table area, or the table item hit
TableArea == [type |-> "table"]

createTargetInfo(item) ==
  IF item.type = "loose" THEN [type |-> "loose", card |-> item]
  ELSE IF item.type = "build" THEN [type |-> "build", buildId |-> item.buildId]
  ELSE [type |-> "temporary_stack", stackId |-> item.stackId]

\* the sequence of f(s[i]) for the elements of s satisfying Test, in order
MapFilter(s, Test(_), f(_)) ==
  Flatten([i \in 1 .. Len(s) |-> IF Test(s[i]) THEN <<f(s[i])>> ELSE <<>>])

hasActiveBuild(tableCards, playerIndex) ==
  \E i \in 1 .. Len(tableCards) :
     tableCards[i].type = "build" /\ tableCards[i].owner = playerIndex

\* step 1 with the captures of loose cards only
captureLooseOnly(draggedItem, gs) ==
  LET draggedValue == rankValue(draggedItem.card.rank)
      matches(t) == t.type = "loose" /\ rankValue(t.rank) = draggedValue
      capture(t) ==
        [type |-> "capture",
         payload |-> [draggedItem |-> draggedItem,
                      selectedTableCards |-> <<t>>,
                      targetCard |-> t]]
  IN  MapFilter(gs.tableCards, matches, capture)

\* step 1: a capture for every table card or build matching the dragged value
captureActions(draggedItem, gs) ==
  LET draggedValue == rankValue(draggedItem.card.rank)
      matches(t) ==
        \/ t.type = "loose" /\ rankValue(t.rank) = draggedValue
        \/ t.type = "build" /\ t.value = draggedValue
      capture(t) ==
        [type |-> "capture",
         payload |-> [draggedItem |-> draggedItem,
                      selectedTableCards |-> <<t>>,
                      targetCard |-> t]]
  IN  MapFilter(gs.tableCards, matches, capture)

\* step 2: immediate builds when the drop is on a loose card of the table
buildActions(draggedItem, targetInfo, gs) ==
  LET draggedCard == draggedItem.card
      draggedValue == rankValue(draggedCard.rank)
      playerHand == gs.playerHands[gs.currentPlayer]
      i == IF targetInfo.type = "loose"
           THEN FindIndex(gs.tableCards,
                          LAMBDA c : c.type = "loose" /\ sameCard(c, targetInfo.card))
           ELSE 0
  IN  IF i = 0 THEN <<>>
      ELSE
        LET targetCard == gs.tableCards[i]
            targetValue == rankValue(targetCard.rank)
            possibleBuilds == <<draggedValue, draggedValue + targetValue>>
            hasCaptureCard(buildValue) ==
              \E k \in 1 .. Len(playerHand) :
                 /\ rankValue(playerHand[k].rank) = buildValue
                 /\ ~sameCard(playerHand[k], draggedCard)
            hasExistingBuild == hasActiveBuild(gs.tableCards, gs.currentPlayer)
            offered(buildValue) ==
              hasCaptureCard(buildValue) /\ ~hasExistingBuild /\ buildValue <= MaxBuildValue
            build(buildValue) ==
              [type |-> "build",
               payload |-> [draggedItem |-> draggedItem,
                            tableCardsInBuild |-> <<targetCard>>,
                            buildValue |-> buildValue,
                            biggerCard |-> IF draggedValue > targetValue
                                           THEN draggedCard ELSE CardOf(targetCard),
                            smallerCard |-> IF draggedValue < targetValue
                                            THEN draggedCard ELSE CardOf(targetCard)]]
        IN  MapFilter(possibleBuilds, offered, build)

\* step 3: adding to the current player's own temporary stack
stagingActions(draggedItem, targetInfo, gs) ==
  LET i == IF targetInfo.type = "temporary_stack"
           THEN FindIndex(gs.tableCards,
                          LAMBDA c : c.type = "temporary_stack"
                                     /\ c.stackId = targetInfo.stackId)
           ELSE 0
  IN  IF i # 0 /\ gs.tableCards[i].owner = gs.currentPlayer
      THEN <<[type |-> "addToStagingStack",
              payload |-> [handCard |-> draggedItem.card,
                           targetStack |-> gs.tableCards[i]]]>>
      ELSE <<>>

\* step 4: adding to a build
extendActions(draggedItem, targetInfo, gs) ==
  LET draggedValue == rankValue(draggedItem.card.rank)
      i == IF targetInfo.type = "build"
           THEN FindIndex(gs.tableCards,
                          LAMBDA c : c.type = "build" /\ c.buildId = targetInfo.buildId)
           ELSE 0
      payload == [draggedItem |-> draggedItem, buildToAddTo |-> gs.tableCards[i]]
  IN  IF i = 0 THEN <<>>
      ELSE IF gs.tableCards[i].owner = gs.currentPlayer
      THEN <<[type |-> "addToOwnBuild", payload |-> payload]>>
      ELSE IF gs.tableCards[i].isExtendable
              /\ gs.tableCards[i].value + draggedValue <= MaxBuildValue
      THEN <<[type |-> "addToOpponentBuild", payload |-> payload]>>
      ELSE <<>>

\* a trail offered whether or not another action was found
trailAlways(found, draggedItem, targetInfo, gs) ==
  IF targetInfo.type = "table"
  THEN <<[type |-> "trail",
          payload |-> [draggedItem |-> draggedItem, card |-> draggedItem.card]]>>
  ELSE <<>>

\* step 5: the trail, when nothing else is possible and the drop hit no item
trailActions(found, draggedItem, targetInfo, gs) ==
  IF /\ Len(found) = 0
     /\ targetInfo.type = "table"
     /\ ~(gs.round = 1 /\ hasActiveBuild(gs.tableCards, gs.currentPlayer))
  THEN <<[type |-> "trail",
          payload |-> [draggedItem |-> draggedItem, card |-> draggedItem.card]]>>
  ELSE <<>>

determineActions(draggedItem, targetInfo, gs) ==
  IF draggedItem.source # "hand"
  THEN [actions |-> <<>>, requiresModal |-> FALSE,
        errorMessage |-> <<"Only hand cards supported">>]
  ELSE
    LET found == captureActions(draggedItem, gs)
                 \o buildActions(draggedItem, targetInfo, gs)
                 \o stagingActions(draggedItem, targetInfo, gs)
                 \o extendActions(draggedItem, targetInfo, gs)
        actions == found \o trailActions(found, draggedItem, targetInfo, gs)
    IN  IF Len(actions) = 0
        THEN [actions |-> <<>>, requiresModal |-> FALSE,
              errorMessage |-> <<"No valid actions available">>]
        ELSE IF Len(actions) = 1 /\ actions[1].type \in {"trail", "capture"}
        THEN [actions |-> actions, requiresModal |-> FALSE, errorMessage |-> null]
        ELSE [actions |-> actions, requiresModal |-> TRUE, errorMessage |-> null]

\* ---------------------------------------------------- server: handlers
\* does table entry t denote the same table item as x (a card by rank and
\* suit, a build by buildId, a temporary stack by stackId)
sameTableItem(t, x) ==
  /\ t.type = x.type
  /\ IF x.type = "loose" THEN sameCard(t, x)
     ELSE IF x.type = "build" THEN t.buildId = x.buildId
     ELSE t.stackId = x.stackId

removeCardsFromTable(tableCards, cardsToRemove) ==
  SelectSeq(tableCards,
            LAMBDA t : ~\E i \in 1 .. Len(cardsToRemove) : sameTableItem(t, cardsToRemove[i]))

\* the cards of the captured items: a loose card itself, a build's or a
\* stack's cards in their order
flattenCapturedCards(selectedTableCards) ==
  Flatten([i \in 1 .. Len(selectedTableCards) |->
             IF selectedTableCards[i].type = "loose"
             THEN <<CardOf(selectedTableCards[i])>>
             ELSE [k \in 1 .. Len(selectedTableCards[i].cards) |->
                     CardOf(selectedTableCards[i].cards[k])]])

\* a capture group with the capturing card first
createCaptureStackCardFirst(capturingCard, capturedCards) == <<capturingCard>> \o capturedCards

\* standard capture (no opponent card): captured cards, then the capturing card
createCaptureStack(capturingCard, capturedCards) == Append(capturedCards, capturingCard)

handleCapture(gs, draggedItem, selectedTableCards) ==
  LET currentPlayer == gs.currentPlayer
      removalResult == removeCardFromHand(gs.playerHands, currentPlayer, draggedItem.card)
      newPlayerHands == IF draggedItem.source = "hand"
                        THEN removalResult.updatedHands ELSE gs.playerHands
      actualCardUsed == IF draggedItem.source = "hand" /\ removalResult.cardRemoved # null
                        THEN removalResult.cardRemoved[1] ELSE draggedItem.card
      finalTableCards == removeCardsFromTable(gs.tableCards, selectedTableCards)
      capturedCards == flattenCapturedCards(selectedTableCards)
      captureGroup == createCaptureStack(actualCardUsed, capturedCards)
      newPlayerCaptures ==
        [gs.playerCaptures EXCEPT ![currentPlayer] = Append(@, captureGroup)]
  IN  nextPlayer([gs EXCEPT !.playerHands = newPlayerHands,
                            !.tableCards = finalTableCards,
                            !.playerCaptures = newPlayerCaptures,
                            !.lastCapturer = <<currentPlayer>>])

\* validateBuild: the build-creation rules of the specification
validateBuild(gs, payload) ==
  LET hand == gs.playerHands[gs.currentPlayer]
      v == payload.buildValue
  IN  /\ 2 <= v /\ v <= MaxBuildValue
      /\ \E k \in 1 .. Len(hand) :
            hand[k].value = v /\ ~sameCard(hand[k], payload.draggedItem.card)
      /\ ~hasActiveBuild(gs.tableCards, gs.currentPlayer)
      /\ ~\E i \in 1 .. Len(gs.tableCards) :
            /\ gs.tableCards[i].type = "build"
            /\ gs.tableCards[i].owner # gs.currentPlayer
            /\ gs.tableCards[i].value = v

Build(buildId, cards, value, owner, isExtendable) ==
  [type |-> "build", buildId |-> buildId, cards |-> cards, value |-> value,
   owner |-> owner, isExtendable |-> isExtendable]

\* handleBuild: removes the played card from the hand and the target from the
\* table, and puts the build [biggerCard, smallerCard] on the table
handleBuild(gs, payload, now) ==
  LET removalResult ==
        removeCardFromHand(gs.playerHands, gs.currentPlayer, payload.draggedItem.card)
      newBuild == Build(now, <<payload.biggerCard, payload.smallerCard>>,
                        payload.buildValue, gs.currentPlayer, FALSE)
      newTableCards ==
        Append(removeCardsFromTable(gs.tableCards, payload.tableCardsInBuild), newBuild)
  IN  nextPlayer([gs EXCEPT !.playerHands = removalResult.updatedHands,
                            !.tableCards = newTableCards])

TemporaryStack(stackId, cards, owner, totalValue) ==
  [type |-> "temporary_stack", stackId |-> stackId, cards |-> cards,
   owner |-> owner, totalValue |-> totalValue]

\* a player never found to hold a temporary stack
neverHasTempStack(gs) == FALSE

playerAlreadyHasTempStack(gs) ==
  \E i \in 1 .. Len(gs.tableCards) :
     gs.tableCards[i].type = "temporary_stack" /\ gs.tableCards[i].owner = gs.currentPlayer

\* handleCreateStagingStack: a hand card staged on a loose table card
handleCreateStagingStack(gs, handCard, tableCard, now) ==
  IF playerAlreadyHasTempStack(gs) THEN gs
  ELSE
    LET handValue == rankValue(handCard.rank)
        tableValue == rankValue(tableCard.rank)
        orderedCards ==
          IF handValue < tableValue
          THEN <<StackCard(tableCard, "table"), StackCard(handCard, "hand")>>
          ELSE <<StackCard(handCard, "hand"), StackCard(tableCard, "table")>>
        newStack == TemporaryStack(now, orderedCards, gs.currentPlayer, null)
        removalResult == removeCardFromHand(gs.playerHands, gs.currentPlayer, handCard)
        finalTableCards ==
          Append(removeCardsFromTable(gs.tableCards, <<tableCard>>), newStack)
    IN  updateGameState(gs, removalResult.updatedHands, finalTableCards)

\* handleAddToStagingStack: a hand card added to an existing stack
handleAddToStagingStack(gs, handCard, targetStack) ==
  LET removalResult == removeCardFromHand(gs.playerHands, gs.currentPlayer, handCard)
      newStack == [targetStack EXCEPT !.cards = Append(@, StackCard(handCard, "hand"))]
      stackIndex == FindIndex(gs.tableCards,
                              LAMBDA t : t.type = "temporary_stack"
                                         /\ t.stackId = targetStack.stackId)
      newTableCards == IF stackIndex = 0 THEN gs.tableCards
                       ELSE [gs.tableCards EXCEPT ![stackIndex] = newStack]
  IN  updateGameState(gs, removalResult.updatedHands, newTableCards)

\* canFinalizeStagingStack: at least one hand card and one table card
\* a finalize test that every stack passes
canFinalizeAnyStack(stack) == TRUE

canFinalizeStagingStack(stack) ==
  LET handCards == SelectSeq(stack.cards, LAMBDA c : c.source = "hand")
      tableCards == SelectSeq(stack.cards, LAMBDA c : c.source = "table")
  IN  Len(handCards) >= 1 /\ Len(tableCards) >= 1

RECURSIVE SumValues(_, _)
SumValues(cards, idx) ==
  IF idx = {} THEN 0
  ELSE LET i == CHOOSE i \in idx : TRUE
       IN  rankValue(cards[i].rank) + SumValues(cards, idx \ {i})

calculateCardSum(cards) == SumValues(cards, 1 .. Len(cards))

\* can the cards at the indices idx be split into groups each summing to v
RECURSIVE CanPartition(_, _, _)
CanPartition(cards, idx, v) ==
  \/ idx = {}
  \/ LET first == CHOOSE i \in idx : \A j \in idx : i <= j
     IN  \E group \in SUBSET idx :
            /\ first \in group
            /\ SumValues(cards, group) = v
            /\ CanPartition(cards, idx \ group, v)

\* findPossibleBuildsFromStack: the values, in ascending order, that the
\* stack's cards partition into and that a card left in the hand captures
findPossibleBuildsFromStack(stack, playerHand, tableCards, currentPlayer) ==
  LET capturable(v) ==
        /\ canFinalizeStagingStack(stack)
        /\ \E k \in 1 .. Len(playerHand) : rankValue(playerHand[k].rank) = v
        /\ CanPartition(stack.cards, 1 .. Len(stack.cards), v)
  IN  SelectSeq([v \in 1 .. MaxBuildValue |-> v], capturable)

\* a handler's result that is an error object and no game state
IsError(result) == "error" \in DOMAIN result

\* handleFinalizeStagingStack with the build value the player confirms (the
\* only one, or the one picked among the options returned to the UI)
handleFinalizeStagingStack(gs, stack, buildValue, now) ==
  LET playerHand == gs.playerHands[gs.currentPlayer]
      possibleBuilds ==
        findPossibleBuildsFromStack(stack, playerHand, gs.tableCards, gs.currentPlayer)
      finalCardsInBuild == [k \in 1 .. Len(stack.cards) |-> CardOf(stack.cards[k])]
      newBuild == Build(now, finalCardsInBuild, buildValue, gs.currentPlayer, TRUE)
      newTableCards == Append(removeCardsFromTable(gs.tableCards, <<stack>>), newBuild)
  IN  IF Len(possibleBuilds) = 0
      THEN [error |-> "This stack does not form a valid build."]
      ELSE nextPlayer([gs EXCEPT !.tableCards = newTableCards])

\* handleCancelTemporaryStack: hand cards back to the owner's hand, the
\* others back to the table
handleCancelTemporaryStack(gs, stackToCancel) ==
  LET handCards == SelectSeq(stackToCancel.cards, LAMBDA c : c.source = "hand")
      tableCards == SelectSeq(stackToCancel.cards, LAMBDA c : c.source # "hand")
      newPlayerHands ==
        [index \in Players |->
           IF index = stackToCancel.owner
           THEN gs.playerHands[index] \o [k \in 1 .. Len(handCards) |-> CardOf(handCards[k])]
           ELSE gs.playerHands[index]]
      newTableCards ==
        SelectSeq(gs.tableCards,
                  LAMBDA c : ~(c.type = "temporary_stack"
                               /\ c.stackId = stackToCancel.stackId))
        \o [k \in 1 .. Len(tableCards) |-> LooseCard(tableCards[k])]
  IN  updateGameState(gs, newPlayerHands, newTableCards)

\* Array.prototype.sort((a, b) => rankValue(b.rank) - rankValue(a.rank)):
\* stable, descending by value
RECURSIVE SortDescending(_)
SortDescending(cards) ==
  IF Len(cards) <= 1 THEN cards
  ELSE LET rest == SortDescending(Tail(cards))
           c == Head(cards)
           \* c goes before the first card of strictly smaller value
           k == FindIndex(rest, LAMBDA d : rankValue(d.rank) < rankValue(c.rank))
       IN  IF k = 0 THEN Append(rest, c)
           ELSE SubSeq(rest, 1, k - 1) \o <<c>> \o SubSeq(rest, k, Len(rest))

\* handleAddToOpponentBuild: the build grows by the played card and changes owner
handleAddToOpponentBuild(gs, draggedItem, buildToAddTo, now) ==
  LET playerCard == draggedItem.card
      newBuildValue == buildToAddTo.value + rankValue(playerCard.rank)
      sortedCards == SortDescending(Append(buildToAddTo.cards, playerCard))
      newBuild == Build(now, sortedCards, newBuildValue, gs.currentPlayer,
                        Len(sortedCards) < 5)
      newPlayerHands ==
        removeCardFromHand(gs.playerHands, gs.currentPlayer, playerCard).updatedHands
      newTableCards ==
        Append(SelectSeq(gs.tableCards,
                         LAMBDA b : ~(b.type = "build" /\ b.buildId = buildToAddTo.buildId)),
               newBuild)
  IN  nextPlayer([gs EXCEPT !.tableCards = newTableCards,
                            !.playerHands = newPlayerHands])

\* c !== payloadCard, for a table entry c and a card of the message payload:
\* the payload is parsed from the socket message, so it is a fresh object and
\* never the object held in gameState.tableCards
notSameObject(c, payloadCard) == TRUE

\* handleAddToTemporaryCaptureStack: "" when the card is added, else the error logged
addToTemporaryCaptureStackError(draggedCard, targetStack) ==
  IF draggedCard.type # "loose" THEN "Only loose cards can be added to temporary stacks"
  ELSE IF Len(targetStack.cards) >= MAX_STACK_SIZE THEN "Stack is full"
  ELSE ""

\* the card appended to the stack, the stack replaced on the table
addCardToStack(gs, draggedCard, targetStack) ==
  LET updatedStack ==
        [targetStack EXCEPT
           !.cards = Append(@, StackCard(draggedCard, "table")),
           !.totalValue = IF targetStack.totalValue = null THEN null
                          ELSE <<targetStack.totalValue[1] + rankValue(draggedCard.rank)>>]
      replaced == [i \in 1 .. Len(gs.tableCards) |->
                     IF gs.tableCards[i].type = "temporary_stack"
                        /\ gs.tableCards[i].stackId = targetStack.stackId
                     THEN updatedStack ELSE gs.tableCards[i]]
      newTableCards == SelectSeq(replaced, LAMBDA c : notSameObject(c, draggedCard))
  IN  updateGameState(gs, gs.playerHands, newTableCards)

\* the card added without the loose-card and stack-size guards
addToFullStack(gs, draggedCard, targetStack) == addCardToStack(gs, draggedCard, targetStack)

\* handleAddToTemporaryCaptureStack: the guards, then the update
handleAddToTemporaryCaptureStack(gs, draggedCard, targetStack) ==
  IF addToTemporaryCaptureStackError(draggedCard, targetStack) # "" THEN gs
  ELSE addCardToStack(gs, draggedCard, targetStack)

\* handleTableCardDrop: "" when a stack is created or grown, else the error logged
tableCardDropError(gs, draggedCard, targetCard) ==
  IF draggedCard.type # "loose" \/ targetCard.type # "loose"
  THEN "Both cards must be loose cards"
  ELSE IF playerAlreadyHasTempStack(gs)
  THEN LET i == FindIndex(gs.tableCards,
                          LAMBDA c : c.type = "temporary_stack"
                                     /\ c.owner = gs.currentPlayer)
       IN  addToTemporaryCaptureStackError(draggedCard, gs.tableCards[i])
  ELSE ""

handleTableCardDrop(gs, draggedCard, targetCard, now) ==
  IF draggedCard.type # "loose" \/ targetCard.type # "loose" THEN gs
  ELSE
    LET i == FindIndex(gs.tableCards,
                       LAMBDA c : c.type = "temporary_stack" /\ c.owner = gs.currentPlayer)
    IN  IF i # 0
        THEN handleAddToTemporaryCaptureStack(gs, draggedCard, gs.tableCards[i])
        ELSE
          LET draggedValue == rankValue(draggedCard.rank)
              targetValue == rankValue(targetCard.rank)
              orderedCards ==
                IF draggedValue < targetValue
                THEN <<StackCard(targetCard, "table"), StackCard(draggedCard, "table")>>
                ELSE <<StackCard(draggedCard, "table"), StackCard(targetCard, "table")>>
              newStack == TemporaryStack(now, orderedCards, gs.currentPlayer,
                                         <<draggedValue + targetValue>>)
              newTableCards ==
                Append(SelectSeq(gs.tableCards,
                                 LAMBDA c : notSameObject(c, draggedCard)
                                            /\ notSameObject(c, targetCard)),
                       newStack)
          IN  updateGameState(gs, gs.playerHands, newTableCards)

\* handleCaptureTemporaryStack: "" when the stack is captured, else the error returned
captureTemporaryStackError(captureCard, targetStack) ==
  IF captureCard.source # "hand" THEN "Capture must use a card from hand"
  ELSE IF <<rankValue(captureCard.rank)>> # targetStack.totalValue
  THEN "Capture card value must equal stack total"
  ELSE ""

handleCaptureTemporaryStack(gs, captureCard, targetStack) ==
  LET error == captureTemporaryStackError(captureCard, targetStack)
      currentPlayer == gs.currentPlayer
      hand == gs.playerHands[currentPlayer]
      \* findIndex(c => c === captureCard) against the payload's object
      handIndex == FindIndex(hand, LAMBDA c : ~notSameObject(c, captureCard))
      newHands == [gs.playerHands EXCEPT
                     ![currentPlayer] = IF handIndex = 0 THEN hand ELSE RemoveAt(hand, handIndex)]
      newTableCards ==
        SelectSeq(gs.tableCards,
                  LAMBDA c : ~(c.type = "temporary_stack"
                               /\ c.stackId = targetStack.stackId))
      capturedGroup == [k \in 1 .. Len(targetStack.cards) |-> CardOf(targetStack.cards[k])]
                       \o <<CardOf(captureCard)>>
      newCaptures == [gs.playerCaptures EXCEPT ![currentPlayer] = Append(@, capturedGroup)]
  IN  IF error # "" THEN [error |-> error]
      ELSE
      nextPlayer([gs EXCEPT !.playerHands = newHands,
                            !.tableCards = newTableCards,
                            !.playerCaptures = newCaptures])

\* does the table hold a loose card or a build that card c captures
captureAvailable(tableCards, c) ==
  \E i \in 1 .. Len(tableCards) :
     \/ tableCards[i].type = "loose" /\ rankValue(tableCards[i].rank) = rankValue(c.rank)
     \/ tableCards[i].type = "build" /\ tableCards[i].value = rankValue(c.rank)

\* the message types whose handlers end the turn
TurnAdvancing ==
  {"trail", "capture", "build", "addToOpponentBuild", "finalizeStagingStack",
   "captureTemporaryStack"}

\* the message types that stage cards without ending the turn
Staging == {"createStagingStack", "addToStagingStack", "tableCardDrop", "cancelStagingStack"}

\* a rollover as soon as one hand is empty
rolloverWhenAHandIsEmpty ==
  /\ lastAction.result = "accepted"
  /\ lastAction.type \in TurnAdvancing
  /\ \E q \in Players : gameState.playerHands[q] = <<>>
  /\ ~gameState.gameOver

\* Turn & Round Controller: after a turn-advancing action that leaves both
\* hands empty, the round rolls over before play continues
rolloverPending ==
  /\ lastAction.result = "accepted"
  /\ lastAction.type \in TurnAdvancing
  /\ \A q \in Players : gameState.playerHands[q] = <<>>
  /\ ~gameState.gameOver

\* the cards dealt from the deck, alternately, player 0 first, up to HandSize
\* cards per player
RECURSIVE dealFrom(_, _, _)
dealFrom(gs, q, n) ==
  IF n = 0 \/ gs.deck = <<>> THEN gs
  ELSE dealFrom([gs EXCEPT
                   !.playerHands =
                      [r \in Players |->
                         IF r = q THEN Append(gs.playerHands[r], gs.deck[Len(gs.deck)])
                         ELSE gs.playerHands[r]],
                   !.deck = SubSeq(gs.deck, 1, Len(gs.deck) - 1)],
                1 - q, n - 1)

\* a redeal that leaves round as it is
redealKeepsRound(gs) == dealFrom(gs, 0, NumPlayers * HandSize)

\* redeal: hands dealt from the remaining deck, table and captures kept, round
\* incremented
redeal(gs) == [dealFrom(gs, 0, NumPlayers * HandSize) EXCEPT !.round = gs.round + 1]

\* ---------------------------------------------------------------- scoring
\* calculateScores: each player's captures flattened to one sequence of cards
allPlayerCards(playerCaptures) == [p \in Players |-> Flatten(playerCaptures[p])]

\* cards counted for "Most Cards"
cardCounts(playerCaptures) == [p \in Players |-> Len(allPlayerCards(playerCaptures)[p])]

\* a spade count that counts the hearts
spadeCountsOfHearts(playerCaptures) ==
  [p \in Players |->
     Len(SelectSeq(allPlayerCards(playerCaptures)[p], LAMBDA c : c.suit = "H"))]

\* spades counted for "Most Spades"
spadeCounts(playerCaptures) ==
  [p \in Players |->
     Len(SelectSeq(allPlayerCards(playerCaptures)[p], LAMBDA c : c.suit = "S"))]

\* Aces, the ten of diamonds and the two of spades
specialCards(playerCaptures) ==
  [p \in Players |->
     LET cards == allPlayerCards(playerCaptures)[p]
     IN  [aces |-> Len(SelectSeq(cards, LAMBDA c : c.rank = "A")),
          bigCasino |-> Len(SelectSeq(cards, LAMBDA c : c.rank = "10" /\ c.suit = "D")),
          littleCasino |-> Len(SelectSeq(cards, LAMBDA c : c.rank = "2" /\ c.suit = "S"))]]

\* the points of each category
MostCardsBonus == 3
MostSpadesBonus == 1
AcePoints == 1
BigCasinoPoints == 2
LittleCasinoPoints == 1

\* the bonus of a category goes to the player with the strictly higher count
bonusFor(counts, p, bonus) == IF counts[p] > counts[1 - p] THEN bonus ELSE 0

\* the per-category breakdown of each player and the aggregate
calculateScores(playerCaptures) ==
  [p \in Players |->
     LET special == specialCards(playerCaptures)[p]
         mostCards == bonusFor(cardCounts(playerCaptures), p, MostCardsBonus)
         mostSpades == bonusFor(spadeCounts(playerCaptures), p, MostSpadesBonus)
     IN  [cardCount |-> cardCounts(playerCaptures)[p],
          spadeCount |-> spadeCounts(playerCaptures)[p],
          mostCards |-> mostCards,
          mostSpades |-> mostSpades,
          aces |-> special.aces * AcePoints,
          bigCasino |-> special.bigCasino * BigCasinoPoints,
          littleCasino |-> special.littleCasino * LittleCasinoPoints,
          total |-> mostCards + mostSpades + special.aces * AcePoints
                    + special.bigCasino * BigCasinoPoints
                    + special.littleCasino * LittleCasinoPoints]]

\* the player with the higher aggregate score; a tie has no winner
winnerOf(scores) ==
  IF scores[0] > scores[1] THEN <<0>>
  ELSE IF scores[1] > scores[0] THEN <<1>>
  ELSE null

\* a sweep that ends the game and leaves the cards on the table
terminateKeepsTable(gs) == [gs EXCEPT !.gameOver = TRUE]

\* termination: the cards left on the table go, as one group, to the last
\* capturer (to nobody when no capture is recorded), the scores are computed
\* from the captures and the game is over
terminate(gs) ==
  LET swept == Flatten([k \in 1 .. Len(gs.tableCards) |->
                          IF gs.tableCards[k].type = "loose" THEN <<CardOf(gs.tableCards[k])>>
                          ELSE [i \in 1 .. Len(gs.tableCards[k].cards) |->
                                  CardOf(gs.tableCards[k].cards[i])]])
      playerCaptures ==
        [q \in Players |->
           IF gs.lastCapturer = <<q>> /\ swept # <<>>
           THEN Append(gs.playerCaptures[q], swept)
           ELSE gs.playerCaptures[q]]
      scoreDetails == calculateScores(playerCaptures)
      scores == [q \in Players |-> scoreDetails[q].total]
  IN  [gs EXCEPT !.tableCards = <<>>, !.playerCaptures = playerCaptures, !.gameOver = TRUE,
                 !.scores = scores, !.winner = winnerOf(scores),
                 !.scoreDetails = <<scoreDetails>>]

\* -------------------------------------------------------------- actions
\* the state after a message is the game state the handler returns (the
\* state before it when the handler returns an error object or the client
\* sends nothing); lastAction records what was submitted last, how it ended
\* and whether it changed the game state
Accept(type, p, gs) ==
  /\ ~rolloverPending
  /\ steps < MaxSteps
  /\ Len(gs.tableCards) <= MaxTable
  /\ gameState' = gs
  /\ lastAction' = [type |-> type, player |-> p, result |-> "accepted",
                     changed |-> gs # gameState]
  /\ steps' = steps + 1
  /\ UNCHANGED <<inflight, waitingPlayers, sockets>>

Reject(type, p, kind, result) ==
  /\ ~rolloverPending
  /\ gameState' = IF IsError(result) THEN gameState ELSE result
  /\ lastAction' = [type |-> type, player |-> p, result |-> kind,
                     changed |-> ~IsError(result) /\ result # gameState]
  /\ UNCHANGED <<clock, steps, inflight, waitingPlayers, sockets>>

HandCards(p) == SeqToSet(gameState.playerHands[p])

TableItems(type) == {t \in SeqToSet(gameState.tableCards) : t.type = type}

TargetInfos == {TableArea} \cup {createTargetInfo(t) : t \in SeqToSet(gameState.tableCards)}

isMyTurn(playerNumber) == gameState.currentPlayer = playerNumber

\* PlayerHand: the current player has a hand card in a temporary stack
hasUsedHandCardInTurn ==
  \E item \in TableItems("temporary_stack") :
     /\ item.owner = gameState.currentPlayer
     /\ \E k \in 1 .. Len(item.cards) : item.cards[k].source = "hand"

\* PlayerHand: hand cards are draggable for the player whose turn it is, until
\* one of them is in the player's temporary stack
canDragHandCards(p) == isMyTurn(p) /\ ~hasUsedHandCardInTurn

\* what determineActions returns for a hand card of the current player
Offered(card, targetInfo) ==
  determineActions(DraggedItem(card, gameState.currentPlayer), targetInfo, gameState)

\* the actions of one type among those offered
OfferedOfType(card, targetInfo, type) ==
  {a \in SeqToSet(Offered(card, targetInfo).actions) : a.type = type}

Init ==
  /\ \E shuffled \in ShuffleOutcomes : gameState = initializeGame(shuffled)
  /\ lastAction = [type |-> "init", player |-> 0, result |-> "accepted", changed |-> FALSE]
  /\ clock = 1
  /\ steps = 0
  /\ inflight = <<>>
  /\ gameStarted

\* handleDropOnCard when it is not the dropping player's turn, whatever the
\* card and the target
DropNotMyTurn(p) ==
  /\ HandCards(p) # {}
  /\ ~isMyTurn(p)
  /\ Reject("handCardDrop", p, "Not Your Turn", gameState)

\* handleDropOnCard when determineActions reports an error
DropInvalidMove(p, card, targetInfo) ==
  /\ canDragHandCards(p)
  /\ card \in HandCards(p)
  /\ Offered(card, targetInfo).errorMessage # null
  /\ Reject("handCardDrop", p, Offered(card, targetInfo).errorMessage[1], gameState)

SendTrail(p, card, targetInfo) ==
  /\ canDragHandCards(p)
  /\ card \in HandCards(p)
  /\ \E a \in OfferedOfType(card, targetInfo, "trail") :
        /\ ~handleTrailThrows(gameState, a.payload.card)
        /\ Accept("trail", p, handleTrail(gameState, a.payload.card))
  /\ UNCHANGED clock

SendCapture(p, card, targetInfo) ==
  /\ canDragHandCards(p)
  /\ card \in HandCards(p)
  /\ \E a \in OfferedOfType(card, targetInfo, "capture") :
        Accept("capture", p,
               handleCapture(gameState, a.payload.draggedItem, a.payload.selectedTableCards))
  /\ UNCHANGED clock

SendBuild(p, card, targetInfo) ==
  /\ canDragHandCards(p)
  /\ card \in HandCards(p)
  /\ \E a \in OfferedOfType(card, targetInfo, "build") :
        IF validateBuild(gameState, a.payload)
        THEN /\ Accept("build", p, handleBuild(gameState, a.payload, clock))
             /\ clock' = clock + 1
        ELSE Reject("build", p, "InvalidBuild", gameState)

SendAddToStagingStack(p, card, targetInfo) ==
  /\ canDragHandCards(p)
  /\ card \in HandCards(p)
  /\ \E a \in OfferedOfType(card, targetInfo, "addToStagingStack") :
        Accept("addToStagingStack", p,
               handleAddToStagingStack(gameState, a.payload.handCard, a.payload.targetStack))
  /\ UNCHANGED clock

SendAddToOpponentBuild(p, card, targetInfo) ==
  /\ canDragHandCards(p)
  /\ card \in HandCards(p)
  /\ \E a \in OfferedOfType(card, targetInfo, "addToOpponentBuild") :
        Accept("addToOpponentBuild", p,
               handleAddToOpponentBuild(gameState, a.payload.draggedItem,
                                        a.payload.buildToAddTo, clock))
  /\ clock' = clock + 1

SendCreateStagingStack(p, card, tableCard) ==
  /\ card \in HandCards(p)
  /\ canDragHandCards(p)
  /\ tableCard \in TableItems("loose")
  /\ LET result == handleCreateStagingStack(gameState, card, tableCard, clock)
     IN  IF playerAlreadyHasTempStack(gameState)
         THEN Reject("createStagingStack", p,
                     "You can only have one staging stack at a time.", result)
         ELSE /\ Accept("createStagingStack", p, result)
              /\ clock' = clock + 1

\* a table card dragged onto another table card; no turn check on the way
SendTableCardDrop(p, i, j) ==
  /\ i \in 1 .. Len(gameState.tableCards)
  /\ j \in 1 .. Len(gameState.tableCards)
  /\ i # j
  /\ gameState.tableCards[i].type = "loose"
  /\ gameState.tableCards[j].type = "loose"
  /\ LET draggedCard == gameState.tableCards[i]
         targetCard == gameState.tableCards[j]
         error == tableCardDropError(gameState, draggedCard, targetCard)
         result == handleTableCardDrop(gameState, draggedCard, targetCard, clock)
     IN  IF error # ""
         THEN Reject("tableCardDrop", p, error, result)
         ELSE /\ Accept("tableCardDrop", p, result)
              /\ clock' = clock + 1

\* the stack's owner presses the accept button
SendFinalizeStagingStack(p, stack) ==
  /\ stack \in TableItems("temporary_stack")
  /\ stack.owner = p
  /\ LET currentPlayer == gameState.currentPlayer
         possibleBuilds ==
           findPossibleBuildsFromStack(stack, gameState.playerHands[currentPlayer],
                                       gameState.tableCards, currentPlayer)
         failed == handleFinalizeStagingStack(gameState, stack, 0, clock)
     IN  IF Len(possibleBuilds) = 0
         THEN Reject("finalizeStagingStack", p, failed.error, failed)
         ELSE /\ \E buildValue \in SeqToSet(possibleBuilds) :
                    Accept("finalizeStagingStack", p,
                           handleFinalizeStagingStack(gameState, stack, buildValue, clock))
              /\ clock' = clock + 1

\* the stack's owner presses the cancel button
SendCancelStagingStack(p, stack) ==
  /\ stack \in TableItems("temporary_stack")
  /\ stack.owner = p
  /\ Accept("cancelStagingStack", p, handleCancelTemporaryStack(gameState, stack))
  /\ UNCHANGED clock

\* a hand card dropped on a temporary stack to capture it
SendCaptureTemporaryStack(p, card, stack) ==
  /\ card \in HandCards(p)
  /\ canDragHandCards(p)
  /\ stack \in TableItems("temporary_stack")
  /\ LET captureCard == StackCard(card, "hand")
         result == handleCaptureTemporaryStack(gameState, captureCard, stack)
     IN  IF IsError(result)
         THEN Reject("captureTemporaryStack", p, result.error, result)
         ELSE /\ Accept("captureTemporaryStack", p, result)
              /\ UNCHANGED clock

\* the round rolls over: a redeal while the deck holds cards, else the end
RoundRollover ==
  /\ rolloverPending
  /\ gameState' = IF gameState.deck # <<>> THEN redeal(gameState) ELSE terminate(gameState)
  /\ lastAction' = [type |-> "roundRollover", player |-> gameState.currentPlayer,
                     result |-> "accepted", changed |-> TRUE]
  /\ UNCHANGED <<clock, steps, inflight, waitingPlayers, sockets>>

Next ==
  \/ RoundRollover
  \/ \E p \in Players : DropNotMyTurn(p)
  \/ \E p \in Players : \E card \in HandCards(p) : \E targetInfo \in TargetInfos :
        DropInvalidMove(p, card, targetInfo)
  \/ \E p \in Players : \E card \in HandCards(p) : SendTrail(p, card, TableArea)
  \/ \E p \in Players : \E card \in HandCards(p) : \E targetInfo \in TargetInfos :
        SendCapture(p, card, targetInfo)
  \/ \E p \in Players : \E card \in HandCards(p) : \E targetInfo \in TargetInfos :
        SendBuild(p, card, targetInfo)
  \/ \E p \in Players : \E card \in HandCards(p) : \E targetInfo \in TargetInfos :
        SendAddToStagingStack(p, card, targetInfo)
  \/ \E p \in Players : \E card \in HandCards(p) : \E targetInfo \in TargetInfos :
        SendAddToOpponentBuild(p, card, targetInfo)
  \/ \E p \in Players : \E card \in HandCards(p) : \E tableCard \in TableItems("loose") :
        SendCreateStagingStack(p, card, tableCard)
  \/ \E p \in Players : \E i, j \in 1 .. Len(gameState.tableCards) : SendTableCardDrop(p, i, j)
  \/ \E p \in Players : \E stack \in TableItems("temporary_stack") :
        SendFinalizeStagingStack(p, stack)
  \/ \E p \in Players : \E stack \in TableItems("temporary_stack") :
        SendCancelStagingStack(p, stack)
  \/ \E p \in Players : \E card \in HandCards(p) : \E stack \in TableItems("temporary_stack") :
        SendCaptureTemporaryStack(p, card, stack)

Spec == Init /\ [][Next]_vars

\* ------------------------------------------------------------ properties
\* every card held anywhere in the state: deck, hands, loose cards, cards
\* inside builds and temporary stacks, cards of the capture groups
CardsOfItem(t) ==
  IF t.type = "loose" THEN <<CardOf(t)>>
  ELSE [k \in 1 .. Len(t.cards) |-> CardOf(t.cards[k])]

CardsInState(gs) ==
  gs.deck
  \o Flatten([i \in 1 .. NumPlayers |->
                [k \in 1 .. Len(gs.playerHands[i - 1]) |-> CardOf(gs.playerHands[i - 1][k])]])
  \o Flatten([i \in 1 .. Len(gs.tableCards) |-> CardsOfItem(gs.tableCards[i])])
  \o Flatten([i \in 1 .. NumPlayers |-> Flatten(gs.playerCaptures[i - 1])])

Occurrences(cards, c) == Cardinality({k \in 1 .. Len(cards) : sameCard(cards[k], c)})

Accepted == lastAction.result = "accepted"

Rejected == lastAction.result # "accepted"

\* C1: card conservation. In every reachable state the cards of the deck, the
\* hands, the table items and the capture groups number exactly the deck's
\* size, and every (rank, suit) card is in exactly one place.
C1_CardConservation ==
  LET cards == CardsInState(gameState)
  IN  /\ Len(cards) = DeckSize
      /\ \A c \in SeqToSet(createDeck) : Occurrences(cards, c) = 1

C3_StagingProvisional ==
  [][(lastAction'.result = "accepted" /\ lastAction'.type \in Staging)
       => /\ gameState'.currentPlayer = gameState.currentPlayer
          /\ gameState'.round = gameState.round
          /\ gameState'.deck = gameState.deck
          /\ gameState'.playerCaptures = gameState.playerCaptures
          /\ gameState'.lastCapturer = gameState.lastCapturer
          /\ gameState'.playerHands[1 - lastAction'.player]
               = gameState.playerHands[1 - lastAction'.player]]_vars

\* C3 witness: a cancel was accepted and gave a staged card back to the hand
\* of the player who staged it, in a state where a capture had been made
C3_Witness ==
  /\ Accepted
  /\ lastAction.type = "cancelStagingStack"
  /\ Len(gameState.playerHands[lastAction.player])
       + Len(gameState.playerHands[1 - lastAction.player]) = 2 * HandSize - 2
  /\ ~\E i \in 1 .. Len(gameState.tableCards) : gameState.tableCards[i].type = "temporary_stack"

\* the ways a message of the given type from player p can be rejected in the
\* current state, over every card and target p can submit it with
RejectionKinds(type, p) ==
  LET hand == HandCards(p)
      stacks == TableItems("temporary_stack")
      positions == {i \in 1 .. Len(gameState.tableCards) : gameState.tableCards[i].type = "loose"}
  IN  IF type = "handCardDrop"
      THEN IF ~isMyTurn(p) THEN {"Not Your Turn" : card \in hand}
           ELSE {Offered(m[1], m[2]).errorMessage[1] :
                   m \in {m \in hand \X TargetInfos : Offered(m[1], m[2]).errorMessage # null}}
      ELSE IF type = "build"
      THEN {"InvalidBuild" :
              m \in {m \in hand \X TargetInfos :
                       /\ isMyTurn(p)
                       /\ \E a \in OfferedOfType(m[1], m[2], "build") :
                             ~validateBuild(gameState, a.payload)}}
      ELSE IF type = "createStagingStack"
      THEN {"You can only have one staging stack at a time." :
              m \in {m \in hand \X TableItems("loose") :
                       isMyTurn(p) /\ playerAlreadyHasTempStack(gameState)}}
      ELSE IF type = "tableCardDrop"
      THEN {tableCardDropError(gameState, gameState.tableCards[m[1]], gameState.tableCards[m[2]]) :
              m \in {m \in positions \X positions : m[1] # m[2]}} \ {""}
      ELSE IF type = "finalizeStagingStack"
      THEN {handleFinalizeStagingStack(gameState, stack, 0, clock).error :
              stack \in {t \in stacks :
                           /\ t.owner = p
                           /\ IsError(handleFinalizeStagingStack(gameState, t, 0, clock))}}
      ELSE IF type = "captureTemporaryStack"
      THEN {handleCaptureTemporaryStack(gameState, StackCard(m[1], "hand"), m[2]).error :
              m \in {m \in hand \X stacks :
                       /\ isMyTurn(p)
                       /\ IsError(handleCaptureTemporaryStack(gameState,
                                                              StackCard(m[1], "hand"), m[2]))}}
      ELSE {}

C5_TurnOwnership ==
  [][lastAction'.player # gameState.currentPlayer
       => (lastAction'.result = "Not Your Turn" /\ gameState' = gameState)]_vars

OwnedBuilds(p) ==
  {i \in 1 .. Len(gameState.tableCards) :
     gameState.tableCards[i].type = "build" /\ gameState.tableCards[i].owner = p}

\* C8: build creation legality. Every build determineActions offers the
\* current player has a value v with 2 <= v <= 10, a card of value v in the
\* hand other than the played card, no build of the player on the table and no
\* build of the opponent with value v; and an accepted build contains the
\* target table card and the played card.
C8_BuildLegality ==
  /\ \A c \in HandCards(gameState.currentPlayer) : \A targetInfo \in TargetInfos :
        \A a \in OfferedOfType(c, targetInfo, "build") :
           LET v == a.payload.buildValue
               p == gameState.currentPlayer
           IN  /\ 2 <= v /\ v <= MaxBuildValue
               /\ \E h \in HandCards(p) : rankValue(h.rank) = v /\ ~sameCard(h, c)
               /\ OwnedBuilds(p) = {}
               /\ \A i \in OwnedBuilds(1 - p) : gameState.tableCards[i].value # v
  /\ (Accepted /\ lastAction.type = "build")
        => LET n == Len(gameState.tableCards)
               b == gameState.tableCards[n]
           IN  /\ b.type = "build"
               /\ b.owner = lastAction.player
               /\ Len(b.cards) = 2
               /\ ~sameCard(b.cards[1], b.cards[2])

\* C9: at most one build per player. In every reachable state each player
\* owns at most one build on the table.
C9_OneBuildPerPlayer == \A p \in Players : Cardinality(OwnedBuilds(p)) <= 1

\* C10: no duplicate build values. In every reachable state no two builds on
\* the table have the same value.
C10_NoDuplicateBuildValues ==
  \A i, j \in 1 .. Len(gameState.tableCards) :
     (/\ i # j
      /\ gameState.tableCards[i].type = "build"
      /\ gameState.tableCards[j].type = "build")
       => gameState.tableCards[i].value # gameState.tableCards[j].value

\* the actions determineActions offers the current player, over every hand
\* card and every drop target
AllOffered ==
  UNION {SeqToSet(Offered(c, targetInfo).actions) :
           c \in HandCards(gameState.currentPlayer), targetInfo \in TargetInfos}

\* C11: build well-formedness. Every build on the table has a value between
\* 2 and 10, between 1 and 5 cards and a value equal to the sum of its cards'
\* values; every build action determineActions proposes has a value between 2
\* and 10 equal to the sum of the values of the two cards it is formed from.
C11_BuildWellFormed ==
  /\ \A b \in TableItems("build") :
        /\ 2 <= b.value /\ b.value <= MaxBuildValue
        /\ 1 <= Len(b.cards) /\ Len(b.cards) <= MAX_STACK_SIZE
        /\ b.value = calculateCardSum(b.cards)
  /\ \A a \in AllOffered :
        a.type = "build"
          => /\ 2 <= a.payload.buildValue /\ a.payload.buildValue <= MaxBuildValue
             /\ a.payload.buildValue
                  = rankValue(a.payload.draggedItem.card.rank)
                    + rankValue(a.payload.tableCardsInBuild[1].rank)

\* C12: build extension legality. Adding a hand card to a build, own or
\* opponent's, is offered only if the build is extendable, the resulting value
\* is at most 10 and the resulting card count is at most 5; after an accepted
\* extension of an opponent's build the table's last item is a build owned by
\* the extending player.
C12_ExtensionLegality ==
  /\ \A a \in AllOffered :
        a.type \in {"addToOwnBuild", "addToOpponentBuild"}
          => LET b == a.payload.buildToAddTo
             IN  /\ b.isExtendable
                 /\ b.value + rankValue(a.payload.draggedItem.card.rank) <= MaxBuildValue
                 /\ Len(b.cards) + 1 <= MAX_STACK_SIZE
  /\ (Accepted /\ lastAction.type = "addToOpponentBuild")
        => LET n == Len(gameState.tableCards)
           IN  /\ n >= 1
               /\ gameState.tableCards[n].type = "build"
               /\ gameState.tableCards[n].owner = lastAction.player
               /\ gameState.tableCards[n].value <= MaxBuildValue

OwnedStacks(p) ==
  {i \in 1 .. Len(gameState.tableCards) :
     gameState.tableCards[i].type = "temporary_stack" /\ gameState.tableCards[i].owner = p}

\* C13: at most one temporary stack per player. In every reachable state the
\* table holds, for each player, at most one temporary_stack owned by that
\* player.
C13_OneStackPerPlayer == \A p \in Players : Cardinality(OwnedStacks(p)) <= 1

\* C13 witness: a player who holds a stack of three or more cards sent
\* createStagingStack and it was rejected
C13_Witness ==
  /\ Rejected
  /\ lastAction.type = "createStagingStack"
  /\ \E i \in OwnedStacks(gameState.currentPlayer) : Len(gameState.tableCards[i].cards) >= 3

hasSource(stack, source) == \E k \in 1 .. Len(stack.cards) : stack.cards[k].source = source

C15_FailedFinalizeDisbands ==
  (Rejected /\ lastAction.type = "finalizeStagingStack")
     => OwnedStacks(lastAction.player) = {}

\* the state after player p's temporary stack, if any, is cancelled
cancelOwn(gs, p) ==
  LET i == FindIndex(gs.tableCards,
                     LAMBDA t : t.type = "temporary_stack" /\ t.owner = p)
  IN  IF i = 0 THEN gs ELSE handleCancelTemporaryStack(gs, gs.tableCards[i])

\* hands and table as sets of cards and items, with captures, deck and turn
StagingView(gs) ==
  [hands |-> [q \in Players |-> {CardOf(c) : c \in SeqToSet(gs.playerHands[q])}],
   table |-> {IF t.type = "loose" THEN LooseCard(t) ELSE t : t \in SeqToSet(gs.tableCards)},
   captures |-> gs.playerCaptures,
   deck |-> gs.deck,
   currentPlayer |-> gs.currentPlayer]

\* the state after the opening trails: player 0 trails the first card of the
\* hand, player 1 the last one (no card on the table matches either)
openingTrails(shuffled) ==
  LET s0 == initializeGame(shuffled)
      s1 == handleTrail(s0, s0.playerHands[0][1])
  IN  handleTrail(s1, s1.playerHands[1][Len(s1.playerHands[1])])

\* the states after player 0 trails c0 and player 1 captures it with c1
openingCaptures(shuffled) ==
  LET s0 == initializeGame(shuffled)
  IN  {handleCapture(handleTrail(s0, c0), DraggedItem(c1, 1), <<LooseCard(c0)>>) :
         <<c0, c1>> \in {<<a, b>> \in SeqToSet(s0.playerHands[0]) \X SeqToSet(s0.playerHands[1]) :
                          rankValue(a.rank) = rankValue(b.rank)}}

\* a temporary stack of the current player that combines a hand card with the
\* top card of the opponent's last capture group (source 'opponentCapture')
borrowedStack(gs, handCard) ==
  LET p == gs.currentPlayer
      o == 1 - p
      groups == gs.playerCaptures[o]
      group == groups[Len(groups)]
      top == group[Len(group)]
      stack == TemporaryStack(0, <<StackCard(handCard, "hand"),
                                   StackCard(top, "opponentCapture")>>, p, null)
  IN  [gs EXCEPT !.playerHands = removeCardFromHand(gs.playerHands, p, handCard).updatedHands,
                 !.playerCaptures =
                    [q \in Players |->
                       IF q = o
                       THEN Append(SubSeq(groups, 1, Len(groups) - 1),
                                   SubSeq(group, 1, Len(group) - 1))
                       ELSE gs.playerCaptures[q]],
                 !.tableCards = Append(gs.tableCards, stack)]

StagingInputs ==
  {openingTrails(shuffled) : shuffled \in ShuffleOutcomes}
  \cup UNION {{borrowedStack(gs, h) : h \in SeqToSet(gs.playerHands[gs.currentPlayer])} :
                gs \in UNION {openingCaptures(shuffled) : shuffled \in ShuffleOutcomes}}

\* the staging phase of a turn: play starts from a state with cards to stage
InitStaging ==
  /\ gameState \in StagingInputs
  /\ lastAction = [type |-> "init", player |-> 0, result |-> "accepted", changed |-> FALSE]
  /\ clock = 1
  /\ steps = 0
  /\ inflight = <<>>
  /\ gameStarted

NextStaging ==
  \/ \E p \in Players : \E card \in HandCards(p) : \E tableCard \in TableItems("loose") :
        SendCreateStagingStack(p, card, tableCard)
  \/ \E p \in Players : \E card \in HandCards(p) : \E targetInfo \in TargetInfos :
        SendAddToStagingStack(p, card, targetInfo)
  \/ \E p \in Players : \E i, j \in 1 .. Len(gameState.tableCards) : SendTableCardDrop(p, i, j)
  \/ \E p \in Players : \E stack \in TableItems("temporary_stack") :
        SendCancelStagingStack(p, stack)

SpecStaging == InitStaging /\ [][NextStaging]_vars

\* the cards of a stack that came from the given source
cardsFrom(stack, source) ==
  {CardOf(stack.cards[k]) : k \in {k \in 1 .. Len(stack.cards) : stack.cards[k].source = source}}

C17_StackSizeCap ==
  \A st \in TableItems("temporary_stack") : Len(st.cards) <= MAX_STACK_SIZE

\* a shuffle that deals the high ranks first and leaves the low ranks for the
\* second round
HighFirst ==
  SubSeq(RankMajor, NumPlayers * HandSize + 1, DeckSize)
  \o SubSeq(RankMajor, 1, NumPlayers * HandSize)

\* n moves of plain play: the current player plays the first card of the hand,
\* capturing the first loose card it matches or, when it matches nothing,
\* trailing it
RECURSIVE plainPlay(_, _)
plainPlay(gs, n) ==
  IF n = 0 \/ gs.playerHands[gs.currentPlayer] = <<>> THEN gs
  ELSE LET c == gs.playerHands[gs.currentPlayer][1]
           i == FindIndex(gs.tableCards,
                          LAMBDA t : t.type = "loose" /\ rankValue(t.rank) = rankValue(c.rank))
       IN  IF i = 0 THEN plainPlay(handleTrail(gs, c), n - 1)
           ELSE plainPlay(handleCapture(gs, DraggedItem(c, gs.currentPlayer),
                                        <<gs.tableCards[i]>>), n - 1)

\* the state at the start of the second round, after a first round of plain play
roundTwo == redeal(plainPlay(initializeGame(DeckPopping(HighFirst)), NumPlayers * HandSize))

InitEndgame ==
  /\ gameState = roundTwo
  /\ lastAction = [type |-> "roundRollover", player |-> roundTwo.currentPlayer,
                   result |-> "accepted", changed |-> TRUE]
  /\ clock = 1
  /\ steps = 0
  /\ inflight = <<>>
  /\ gameStarted

\* the last round of a game: play from the second deal to the end
SpecEndgame == InitEndgame /\ [][Next]_vars

\* C18: redeal. When a turn-advancing action has left both hands empty and
\* the deck is not empty, the next step is the redeal: each player gets up to
\* HandSize cards (10 in the game) taken from the deck, the table and both
\* capture piles are unchanged and round increases by exactly 1; round changes
\* in no other step.
C18_Redeal ==
  [][/\ (rolloverPending /\ gameState.deck # <<>>) => lastAction'.type = "roundRollover"
     /\ (lastAction'.type = "roundRollover" /\ gameState.deck # <<>>)
           => /\ \A q \in Players : Len(gameState'.playerHands[q]) <= HandSize
              /\ Len(gameState'.playerHands[0]) + Len(gameState'.playerHands[1])
                   = Min(NumPlayers * HandSize, Len(gameState.deck))
              /\ Len(gameState'.deck)
                   = Len(gameState.deck) - Min(NumPlayers * HandSize, Len(gameState.deck))
              /\ SeqToSet(gameState'.playerHands[0]) \cup SeqToSet(gameState'.playerHands[1])
                   \cup SeqToSet(gameState'.deck) = SeqToSet(gameState.deck)
              /\ gameState'.tableCards = gameState.tableCards
              /\ gameState'.playerCaptures = gameState.playerCaptures
              /\ gameState'.round = gameState.round + 1
     /\ gameState'.round # gameState.round
           => (lastAction'.type = "roundRollover" /\ gameState.deck # <<>>)]_vars

\* C18 witness: a redeal happened with cards on the table and captures made
C18_Witness ==
  /\ lastAction.type = "roundRollover"
  /\ gameState.round = 2
  /\ gameState.tableCards # <<>>
  /\ \E q \in Players : gameState.playerCaptures[q] # <<>>
  /\ \A q \in Players : Len(gameState.playerHands[q]) = HandSize

\* the player who made the last accepted move has an empty hand and the deck
\* holds a card
actingHandEmptied ==
  /\ lastAction.result = "accepted"
  /\ lastAction.type \in TurnAdvancing
  /\ gameState.playerHands[lastAction.player] = <<>>
  /\ gameState.deck # <<>>

C20_TerminalSweep ==
  [][/\ (rolloverPending /\ gameState.deck = <<>>)
           => /\ lastAction'.type = "roundRollover"
              /\ gameState'.gameOver
              /\ gameState'.tableCards = <<>>
              /\ gameState'.lastCapturer = gameState.lastCapturer
              /\ IF gameState.lastCapturer = null
                 THEN gameState'.playerCaptures = gameState.playerCaptures
                 ELSE LET q == gameState.lastCapturer[1]
                          onTable == UNION {SeqToSet(CardsOfItem(t)) :
                                              t \in SeqToSet(gameState.tableCards)}
                      IN  /\ onTable \subseteq SeqToSet(Flatten(gameState'.playerCaptures[q]))
                          /\ gameState'.playerCaptures[1 - q] = gameState.playerCaptures[1 - q]
     /\ gameState'.gameOver
           => /\ \A q \in Players : gameState'.playerHands[q] = <<>>
              /\ gameState'.deck = <<>>]_vars

\* C20 witness: the game is over and the last capturer's pile ends with the
\* group of cards swept from the table
C20_Witness ==
  /\ gameState.gameOver
  /\ gameState.lastCapturer # null
  /\ LET groups == gameState.playerCaptures[gameState.lastCapturer[1]]
     IN  groups # <<>> /\ Len(groups[Len(groups)]) >= 4

\* the message types that capture
CaptureTypes == {"capture", "captureTemporaryStack"}

\* C21: lastCapturer tracks the latest capture. It is null at the start; an
\* accepted capture sets it to the player who captured, and no other step
\* (trail, build, staging, redeal) changes it.
C21_LastCapturerTracks ==
  [][IF lastAction'.result = "accepted" /\ lastAction'.type \in CaptureTypes
     THEN gameState'.lastCapturer = <<lastAction'.player>>
     ELSE gameState'.lastCapturer = gameState.lastCapturer]_vars

\* ------------------------------------------------------- scoring inputs
\* the cards of the deck that owner gives to player p, in deck order
pileOf(owner, p) ==
  LET idx == SelectSeq([k \in 1 .. DeckSize |-> k], LAMBDA k : owner[k] = p)
  IN  [i \in 1 .. Len(idx) |-> createDeck[idx[i]]]

\* a pile cut into capture groups of at most size cards
RECURSIVE groupsOf(_, _)
groupsOf(cards, size) ==
  IF cards = <<>> THEN <<>>
  ELSE <<SubSeq(cards, 1, Min(size, Len(cards)))>>
       \o groupsOf(SubSeq(cards, Min(size, Len(cards)) + 1, Len(cards)), size)

\* the sizes of capture groups the inputs are cut into
GroupSizes == {2, 3}

\* the state after the last card of the last round was played: hands, deck and
\* table empty, every card of the deck in one of the two capture piles
playedOut(owner, size, last) ==
  [initializeGame(DeckPopping(RankMajor)) EXCEPT
     !.deck = <<>>,
     !.playerHands = [p \in Players |-> <<>>],
     !.playerCaptures = [p \in Players |-> groupsOf(pileOf(owner, p), size)],
     !.currentPlayer = 1 - last,
     !.round = DeckSize \div (NumPlayers * HandSize),
     !.lastCapturer = <<last>>]

InitScoring ==
  /\ \E owner \in [1 .. DeckSize -> Players], size \in GroupSizes :
        \E last \in {p \in Players : pileOf(owner, p) # <<>>} :
           /\ gameState = playedOut(owner, size, last)
           /\ lastAction = [type |-> "capture", player |-> last,
                            result |-> "accepted", changed |-> TRUE]
  /\ clock = 1
  /\ steps = 0
  /\ inflight = <<>>
  /\ gameStarted

NextScoring == RoundRollover

\* the end of a game from every split of the deck between the two piles
SpecScoring == InitScoring /\ [][NextScoring]_vars

\* C22: scoring outcome. At game over the winner is the player with the
\* strictly higher aggregate score and null when the aggregates are equal; the
\* most-cards bonus goes to the player with more captured cards and the
\* most-spades bonus to the player with more captured spades, each Ace scores
\* a point for its holder, and every entry of scoreDetails is determined by
\* the two flattened capture sequences.
C22_ScoringOutcome ==
  gameState.gameOver =>
    LET flat == [p \in Players |-> Flatten(gameState.playerCaptures[p])]
        count(p, suit, rank) ==
          Cardinality({i \in 1 .. Len(flat[p]) :
                         /\ suit # "" => flat[p][i].suit = suit
                         /\ rank # "" => flat[p][i].rank = rank})
        d == gameState.scoreDetails[1]
        scores == gameState.scores
    IN  /\ gameState.winner = (IF scores[0] > scores[1] THEN <<0>>
                                ELSE IF scores[1] > scores[0] THEN <<1>> ELSE null)
        /\ \A p \in Players :
              /\ scores[p] = d[p].total
              /\ d[p].cardCount = count(p, "", "")
              /\ d[p].spadeCount = count(p, "S", "")
              /\ d[p].mostCards = (IF count(p, "", "") > count(1 - p, "", "")
                                   THEN MostCardsBonus ELSE 0)
              /\ d[p].mostSpades = (IF count(p, "S", "") > count(1 - p, "S", "")
                                    THEN MostSpadesBonus ELSE 0)
              /\ d[p].aces = count(p, "", "A")
              /\ d[p].bigCasino = BigCasinoPoints * count(p, "D", "10")
              /\ d[p].littleCasino = LittleCasinoPoints * count(p, "S", "2")
              /\ d[p].total = d[p].mostCards + d[p].mostSpades + d[p].aces
                              + d[p].bigCasino + d[p].littleCasino

\* C22 witness: a game is over in which player 0 has more cards, player 1 more
\* spades and both hold the same number of Aces, as in the spec's scenario
C22_Witness ==
  /\ gameState.gameOver
  /\ gameState.scoreDetails # null
  /\ LET d == gameState.scoreDetails[1]
     IN  /\ d[0].cardCount > d[1].cardCount
         /\ d[0].spadeCount < d[1].spadeCount
         /\ d[0].aces = d[1].aces /\ d[0].aces > 0
         /\ d[0].mostCards > 0 /\ d[1].mostCards = 0
         /\ d[1].mostSpades > 0 /\ d[0].mostSpades = 0

\* ------------------------------------------------------------- session
\* the game-action messages the client of player p sends from the committed
\* state: the trail, capture or build determineActions offers for a hand card,
\* and a table card dropped on another (no turn check on the way)
clientActions(p) ==
  {[type |-> a.type, payload |-> a.payload] :
     a \in {b \in UNION {SeqToSet(Offered(card, targetInfo).actions) :
                           card \in {c \in HandCards(p) : canDragHandCards(p)},
                           targetInfo \in TargetInfos} :
              b.type \in {"trail", "capture", "build"}}}
  \cup {[type |-> "tableCardDrop",
         payload |-> [draggedCard |-> gameState.tableCards[i],
                      targetCard |-> gameState.tableCards[j]]] :
          i, j \in {k \in 1 .. Len(gameState.tableCards) :
                      gameState.tableCards[k].type = "loose"}}

\* the server's game-action handler: the handler of the action's type applied
\* to the committed state (an error object when the handler refuses, one
\* marked thrown when it throws)
gameAction(gs, action, now) ==
  IF action.type = "trail"
  THEN IF handleTrailThrows(gs, action.payload.card)
       THEN [error |-> "Card not found in hand", thrown |-> TRUE]
       ELSE handleTrail(gs, action.payload.card)
  ELSE IF action.type = "capture"
  THEN handleCapture(gs, action.payload.draggedItem, action.payload.selectedTableCards)
  ELSE IF action.type = "build"
  THEN IF validateBuild(gs, action.payload)
       THEN handleBuild(gs, action.payload, now)
       ELSE [error |-> "InvalidBuild"]
  ELSE LET error == tableCardDropError(gs, action.payload.draggedCard,
                                       action.payload.targetCard)
       IN  IF error # "" THEN [error |-> error]
           ELSE handleTableCardDrop(gs, action.payload.draggedCard,
                                    action.payload.targetCard, now)

\* sendAction: the client emits game-action; the message is in flight, tagged
\* with its sender and the number of the committed state it was built from
sendAction(p, action) ==
  /\ Len(inflight) < MaxInflight
  /\ steps < MaxSessionSteps
  /\ action.type = "tableCardDrop"
       => action.payload.draggedCard # action.payload.targetCard
  /\ inflight' = Append(inflight, [type |-> action.type, payload |-> action.payload,
                                   sender |-> p, pre |-> steps])
  /\ UNCHANGED <<gameState, lastAction, clock, steps, waitingPlayers, sockets>>

\* the next message of player p's socket among those in flight
nextFrom(p) == FindIndex(inflight, LAMBDA m : m.sender = p)

\* the server takes the next message of one socket and applies it: one message
\* at a time, each socket's messages in the order sent
serverReceive(p) ==
  /\ nextFrom(p) # 0
  /\ LET action == inflight[nextFrom(p)]
         result == gameAction(gameState, action, clock)
         accepted == ~IsError(result)
     IN  /\ gameState' = IF accepted THEN result ELSE gameState
         /\ lastAction' = [type |-> action.type, player |-> action.sender,
                           result |-> IF accepted THEN "accepted" ELSE result.error,
                           changed |-> accepted /\ result # gameState,
                           thrown |-> "thrown" \in DOMAIN result,
                           pre |-> action.pre,
                           acceptedPre |-> IF accepted THEN action.pre
                                           ELSE lastAction.acceptedPre]
         /\ steps' = IF accepted THEN steps + 1 ELSE steps
         /\ clock' = IF accepted /\ action.type \in {"tableCardDrop", "build"}
                     THEN clock + 1 ELSE clock
  /\ inflight' = RemoveAt(inflight, nextFrom(p))
  /\ UNCHANGED <<waitingPlayers, sockets>>

\* the step applies the next message of player p
received(p) == nextFrom(p) # 0 /\ inflight' = RemoveAt(inflight, nextFrom(p))

InitSession ==
  /\ \E shuffled \in ShuffleOutcomes : gameState = initializeGame(shuffled)
  /\ lastAction = [type |-> "init", player |-> 0, result |-> "accepted", changed |-> FALSE,
                   thrown |-> FALSE, pre |-> -1, acceptedPre |-> -1]
  /\ clock = 1
  /\ steps = 0
  /\ inflight = <<>>
  /\ gameStarted

NextSession ==
  \/ \E p \in Players : \E action \in clientActions(p) : sendAction(p, action)
  \/ \E p \in Players : serverReceive(p)

\* a session: both clients send, the server applies the messages in turn
SpecSession == InitSession /\ [][NextSession]_vars

\* C23: serialized apply. With the server applying one message at a time,
\* every accepted action was built from the state the server holds when it
\* applies it (the state committed by the previous action), no two accepted
\* actions were built from the same state, and the state after it holds every
\* card of the deck exactly once.
C23_SerializedApply ==
  [][\A p \in Players :
       (received(p) /\ lastAction'.result = "accepted")
       => /\ inflight[nextFrom(p)].pre = steps
          /\ inflight[nextFrom(p)].pre # lastAction.acceptedPre
          /\ LET cards == CardsInState(gameState')
             IN  /\ Len(cards) = DeckSize
                 /\ \A c \in SeqToSet(createDeck) : Occurrences(cards, c) = 1]_vars

\* the action types that create or extend a build
BuildTypes == {"build", "addToOwnBuild", "addToOpponentBuild"}

\* the build actions determineActions offers for hand card c on a target
OfferedBuilds(c, targetInfo) ==
  {a \in SeqToSet(Offered(c, targetInfo).actions) : a.type \in BuildTypes}

\* the cards that left player p's hand between two states
playedCards(gs, after, p) ==
  {c \in SeqToSet(gs.playerHands[p]) :
     ~\E k \in 1 .. Len(after.playerHands[p]) : sameCard(after.playerHands[p][k], c)}

refersToAbsent(gs, action) ==
  LET handCards == IF action.type = "trail" THEN <<action.payload.card>>
                   ELSE IF action.type \in {"capture", "build"}
                   THEN <<action.payload.draggedItem.card>>
                   ELSE <<>>
      tableItems == IF action.type = "capture" THEN action.payload.selectedTableCards
                    ELSE IF action.type = "build" THEN action.payload.tableCardsInBuild
                    ELSE IF action.type = "tableCardDrop"
                    THEN <<action.payload.draggedCard, action.payload.targetCard>>
                    ELSE <<>>
  IN  \/ \E k \in 1 .. Len(handCards) :
            ~\E i \in 1 .. Len(gs.playerHands[action.sender]) :
                sameCard(gs.playerHands[action.sender][i], handCards[k])
      \/ \E k \in 1 .. Len(tableItems) :
            ~\E i \in 1 .. Len(gs.tableCards) : sameTableItem(gs.tableCards[i], tableItems[k])

\* C25: source integrity. An action that names a hand card not in the acting
\* player's hand, or a table item not on the table, is rejected with an error
\* returned as a value (never thrown) and leaves the state unchanged; and
\* determineActions offers no action for a dragged card that is not in the
\* current player's hand.
C25_SourceIntegrity ==
  [][/\ \A p \in Players :
          (received(p) /\ refersToAbsent(gameState, inflight[nextFrom(p)]))
          => /\ lastAction'.result # "accepted"
             /\ ~lastAction'.thrown
             /\ gameState' = gameState
     /\ \A c \in SeqToSet(createDeck) \ HandCards(gameState.currentPlayer) :
           \A targetInfo \in TargetInfos : Offered(c, targetInfo).actions = <<>>]_vars

\* ------------------------------------------------------------ validation
\* validateCapture: value match, then presence on the table, then the turn
validateCapture(draggedItem, selectedTableCards, gs) ==
  LET draggedValue == rankValue(draggedItem.card.rank)
      canCaptureAll ==
        \A i \in 1 .. Len(selectedTableCards) :
           IF selectedTableCards[i].type = "build"
           THEN selectedTableCards[i].value = draggedValue
           ELSE rankValue(selectedTableCards[i].rank) = draggedValue
      allCardsExist ==
        \A i \in 1 .. Len(selectedTableCards) : \E j \in 1 .. Len(gs.tableCards) :
           IF selectedTableCards[i].type = "build"
           THEN /\ gs.tableCards[j].type = "build"
                /\ gs.tableCards[j].buildId = selectedTableCards[i].buildId
           ELSE /\ gs.tableCards[j].type = "loose"
                /\ gs.tableCards[j].rank = selectedTableCards[i].rank
                /\ gs.tableCards[j].suit = selectedTableCards[i].suit
  IN  IF ~canCaptureAll
      THEN [valid |-> FALSE, message |-> <<"Selected cards cannot be captured with this card">>]
      ELSE IF ~allCardsExist
      THEN [valid |-> FALSE, message |-> <<"Some selected cards are no longer available">>]
      ELSE IF gs.currentPlayer # draggedItem.player
      THEN [valid |-> FALSE, message |-> <<"Not your turn">>]
      ELSE [valid |-> TRUE, message |-> null]

\* the numbers of plain moves played before a capture is validated
PlayedMoves == 0 .. 3

InitValidate ==
  /\ \E order \in {RankMajor, BlockDeal, HighFirst}, n \in PlayedMoves :
        gameState = plainPlay(initializeGame(DeckPopping(order)), n)
  /\ lastAction = [type |-> "init", player |-> 0, result |-> "accepted", changed |-> FALSE]
  /\ clock = 1
  /\ steps = 0
  /\ inflight = <<>>
  /\ gameStarted

\* a capture of one loose card put to validateCapture by player p
ValidateCapture(p, card, target) ==
  LET draggedItem == DraggedItem(card, p)
      selectedTableCards == <<LooseCard(target)>>
      validation == validateCapture(draggedItem, selectedTableCards, gameState)
  IN  /\ lastAction' = [type |-> "validateCapture", player |-> p,
                        result |-> IF validation.valid THEN "accepted"
                                   ELSE validation.message[1],
                        changed |-> FALSE,
                        draggedItem |-> draggedItem,
                        selectedTableCards |-> selectedTableCards]
      /\ UNCHANGED <<gameState, clock, steps, inflight, waitingPlayers, sockets>>

NextValidate ==
  \E p \in Players : \E card, target \in SeqToSet(createDeck) : ValidateCapture(p, card, target)

\* captures validated in positions of plain play
SpecValidate == InitValidate /\ [][NextValidate]_vars

\* C26: validation precedence. A capture put forward by a player who is not
\* the current player is reported as not their turn, even when its target is
\* missing or its values mismatch; one by the current player whose target is
\* not on the table is reported as no longer available, even when its values
\* mismatch.
C26_ValidationPrecedence ==
  lastAction.type = "validateCapture" =>
    LET target == lastAction.selectedTableCards[1]
        missing == ~\E j \in 1 .. Len(gameState.tableCards) :
                      sameTableItem(gameState.tableCards[j], target)
    IN  /\ lastAction.player # gameState.currentPlayer
             => lastAction.result = "Not your turn"
        /\ (lastAction.player = gameState.currentPlayer /\ missing)
             => lastAction.result = "Some selected cards are no longer available"

laterThan(now) == now + 1

\* C28: applying an action to a state gives the same outcome whenever it is
\* applied: for every table-card drop and every staging of a hand card that
\* can be submitted in the state, the handler's result at the current time
\* equals its result at a later time, the id of the created stack included
C28_Deterministic ==
  /\ \A draggedCard, targetCard \in TableItems("loose") :
        draggedCard # targetCard
        => handleTableCardDrop(gameState, draggedCard, targetCard, clock)
             = handleTableCardDrop(gameState, draggedCard, targetCard, laterThan(clock))
  /\ \A handCard \in HandCards(gameState.currentPlayer) :
        \A tableCard \in TableItems("loose") :
          handleCreateStagingStack(gameState, handCard, tableCard, clock)
            = handleCreateStagingStack(gameState, handCard, tableCard, laterThan(clock))

\* -------------------------------------------------------- state snapshots
\* the game-start event emitted to a player's socket
gameStart(gs, playerNumber) == [gameState |-> gs, playerNumber |-> playerNumber]

\* the game-update event: the game state the client stores as it arrives
gameUpdate(gs) == gs

\* what is transmitted to player p when the committed state is gs: game-start
\* for the initial state, game-update after an action
snapshot(gs, p, last) ==
  IF last.type = "init" THEN gameStart(gs, p) ELSE gameUpdate(gs)

\* other hands the opponent could hold: the same cards in another order, or
\* one card fewer
otherHands(hand) == {Reverse(hand), SubSeq(hand, 2, Len(hand))} \ {hand}

\* C29: what is transmitted to a player does not depend on the opponent's
\* hand: a state that differs from the committed one only in the opponent's
\* hand gives the player the same game-start or game-update snapshot
C29_HandConfidential ==
  \A p \in Players :
    \A hand \in otherHands(gameState.playerHands[1 - p]) :
      snapshot([gameState EXCEPT !.playerHands[1 - p] = hand], p, lastAction)
        = snapshot(gameState, p, lastAction)

\* ------------------------------------------------------------ matchmaking
\* the disconnect handler's queue: the waiting sockets but the one that left
leaveQueueKeeps(queue, s) == queue

leaveQueue(queue, s) == SelectSeq(queue, LAMBDA p : p # s)

\* the game-start events emitted to the sockets of a queue, in queue order
gameStartEvents(queue, gs) ==
  [index \in 1 .. Len(queue) |->
     [type |-> "game-start", to |-> queue[index]] @@ gameStart(gs, index - 1)]

\* io.on('connection'): the socket joins the queue; with two sockets waiting
\* the game is initialized, game-start is emitted to both and the queue cleared
connection(s) ==
  /\ sockets[s] = "new"
  /\ sockets' = [sockets EXCEPT ![s] = "connected"]
  /\ LET queue == Append(waitingPlayers, s)
     IN  IF Len(queue) = NumPlayers
         THEN \E shuffled \in ShuffleOutcomes :
                /\ gameState' = initializeGame(shuffled)
                /\ inflight' = inflight \o gameStartEvents(queue, gameState')
                /\ waitingPlayers' = <<>>
         ELSE /\ waitingPlayers' = queue
              /\ UNCHANGED <<gameState, inflight>>
  /\ lastAction' = [type |-> "connection", player |-> s, result |-> "accepted",
                     changed |-> Len(waitingPlayers) + 1 = NumPlayers]
  /\ UNCHANGED <<clock, steps>>

\* socket.on('disconnect'): the socket leaves the queue if it was waiting
disconnect(s) ==
  /\ sockets[s] = "connected"
  /\ sockets' = [sockets EXCEPT ![s] = "disconnected"]
  /\ waitingPlayers' = leaveQueue(waitingPlayers, s)
  /\ lastAction' = [type |-> "disconnect", player |-> s, result |-> "accepted",
                     changed |-> FALSE]
  /\ UNCHANGED <<gameState, inflight, clock, steps>>

\* the server starts listening: no game, nobody waiting, nothing emitted
InitLobby ==
  /\ gameState = null
  /\ lastAction = [type |-> "listen", player |-> 0, result |-> "accepted", changed |-> FALSE]
  /\ clock = 1
  /\ steps = 0
  /\ inflight = <<>>
  /\ waitingPlayers = <<>>
  /\ sockets = [s \in Sockets |-> "new"]

NextLobby ==
  \/ \E s \in Sockets : connection(s)
  \/ \E s \in Sockets : disconnect(s)

SpecLobby == InitLobby /\ [][NextLobby]_vars

\* the events emitted by the step
emittedNow == SubSeq(inflight', Len(inflight) + 1, Len(inflight'))

\* C30: a game is initialized and game-start emitted only by the connection
\* that makes the waiting queue hold exactly two sockets; the two events go to
\* the socket that was waiting, as player 0, and to the one that connected, as
\* player 1, with the same freshly initialized state; the queue is then
\* empty; and neither recipient has disconnected
C30_Matchmaking ==
  [][(gameState' # gameState \/ inflight' # inflight)
       => /\ Len(waitingPlayers) = 1
          /\ waitingPlayers' = <<>>
          /\ Len(emittedNow) = NumPlayers
          /\ emittedNow[1].to = waitingPlayers[1]
          /\ sockets[emittedNow[2].to] = "new"
          /\ \A index \in 1 .. NumPlayers :
                /\ emittedNow[index].type = "game-start"
                /\ emittedNow[index].playerNumber = index - 1
                /\ emittedNow[index].gameState = gameState'
                /\ sockets'[emittedNow[index].to] = "connected"
          /\ \E shuffled \in ShuffleOutcomes : gameState' = initializeGame(shuffled)]_vars

\* a game has started although a socket that connected earlier had left the
\* queue: that socket got no game-start
C30_Witness ==
  /\ Len(inflight) = NumPlayers
  /\ \E s \in Sockets :
        /\ sockets[s] = "disconnected"
        /\ \A index \in 1 .. Len(inflight) : inflight[index].to # s
  /\ \A index \in 1 .. Len(inflight) : sockets[inflight[index].to] = "connected"

\* ------------------------------------------------------------- the deal
\* the shuffle's loop iterations whose random draw is left open; the later
\* iterations draw j = i and swap nothing
MaxDraws == 3

\* [deck[i], deck[j]] = [deck[j], deck[i]] on 0-based indices
swap(deck, i, j) ==
  [k \in 1 .. Len(deck) |->
     IF k = i + 1 THEN deck[j + 1] ELSE IF k = j + 1 THEN deck[i + 1] ELSE deck[k]]

\* the Fisher-Yates loop from index i down to 1, draws[i] being the value of
\* Math.floor(Math.random() * (i + 1)) in iteration i
RECURSIVE shuffleDeck(_, _, _)
shuffleDeck(deck, i, draws) ==
  IF i <= 0 THEN deck ELSE shuffleDeck(swap(deck, i, draws[i]), i - 1, draws)

\* the draws of one shuffle: 0 .. i in each of the first MaxDraws iterations
ShuffleDraws ==
  LET open == (DeckSize - MaxDraws) .. (DeckSize - 1)
  IN  {[i \in 1 .. (DeckSize - 1) |-> IF i \in open THEN d[i] ELSE i] :
         d \in {e \in [open -> 0 .. (DeckSize - 1)] : \A i \in open : e[i] <= i}}

\* the server process before its first game: the deck is created and shuffled
InitDeal ==
  /\ gameState = null
  /\ \E draws \in ShuffleDraws :
        lastAction = [type |-> "shuffle", player |-> 0, result |-> "accepted",
                      changed |-> FALSE,
                      shuffled |-> shuffleDeck(createDeck, DeckSize - 1, draws)]
  /\ clock = 1
  /\ steps = 0
  /\ inflight = <<>>
  /\ gameStarted

\* initializeGame deals the shuffled deck
Deal ==
  /\ lastAction.type = "shuffle"
  /\ gameState' = initializeGame(lastAction.shuffled)
  /\ lastAction' = [lastAction EXCEPT !.type = "init"]
  /\ UNCHANGED <<clock, steps, inflight, waitingPlayers, sockets>>

NextDeal == Deal

SpecDeal == InitDeal /\ [][NextDeal]_vars

\* C31: whatever the shuffle gives, the dealt state holds every card of the
\* deck exactly once in the deck and the two hands, each card valued 1 for
\* an ace and its rank number otherwise; the hands hold HandSize cards each,
\* popped alternately from the end of the shuffled deck with player 0 first;
\* the deck keeps the rest; table and captures are empty, player 0 is to move
\* in round 1, the scores are 0, the game is not over and winner, lastCapturer
\* and scoreDetails are null
C31_InitialDeal ==
  lastAction.type = "init"
  => LET gs == gameState
         shuffled == lastAction.shuffled
         popped == Reverse(SubSeq(shuffled, DeckSize - NumPlayers * HandSize + 1, DeckSize))
         cards == gs.deck \o gs.playerHands[0] \o gs.playerHands[1]
     IN  /\ Len(cards) = DeckSize
         /\ \A suit \in SeqToSet(suits) : \A rank \in SeqToSet(ranks) :
               Cardinality({k \in 1 .. Len(cards) :
                              cards[k].suit = suit /\ cards[k].rank = rank}) = 1
         /\ \A k \in 1 .. Len(cards) :
               cards[k].value = IF cards[k].rank = "A" THEN 1
                                ELSE FindIndex(ranks, LAMBDA r : r = cards[k].rank)
         /\ \A p \in Players : Len(gs.playerHands[p]) = HandSize
         /\ Zip(gs.playerHands[0], gs.playerHands[1]) = popped
         /\ gs.deck = SubSeq(shuffled, 1, DeckSize - NumPlayers * HandSize)
         /\ gs.tableCards = <<>>
         /\ \A p \in Players : gs.playerCaptures[p] = <<>> /\ gs.scores[p] = 0
         /\ gs.currentPlayer = 0
         /\ gs.round = 1
         /\ gs.gameOver = FALSE
         /\ gs.winner = null /\ gs.lastCapturer = null /\ gs.scoreDetails = null

\* a deal of a deck the shuffle has reordered
C31_Witness ==
  /\ lastAction.type = "init"
  /\ lastAction.shuffled # createDeck
  /\ gameState.playerHands[0][1] = lastAction.shuffled[DeckSize]

\* ------------------------------------------------------- the action modal
\* C32: for every hand card of the player to move and every target,
\* determineActions asks for the modal exactly when it found two or more
\* actions: one action is returned with requiresModal false, and no action
\* gives an empty list with an error message
C32_SingleActionImmediate ==
  \A card \in HandCards(gameState.currentPlayer) : \A targetInfo \in TargetInfos :
    LET result == Offered(card, targetInfo)
    IN  /\ Len(result.actions) = 1 => ~result.requiresModal
        /\ result.requiresModal <=> Len(result.actions) >= 2
        /\ Len(result.actions) = 0 => result.errorMessage # null

\* -------------------------------------------------------- capturable cards
\* getCapturableCards: a table entry with a rank and no type is a loose card
\* and is capturable by a hand card of its rank; a build by a hand card of its
\* value; nothing else
getCapturableCards(tableCards, handCard) ==
  SelectSeq(tableCards,
            LAMBDA tableCard :
              IF "rank" \in DOMAIN tableCard /\ "type" \notin DOMAIN tableCard
              THEN tableCard.rank = handCard.rank
              ELSE IF "type" \in DOMAIN tableCard /\ tableCard.type = "build"
              THEN tableCard.value = handCard.value
              ELSE FALSE)

\* findPossibleCaptures: a capture for every loose card and build of the
\* card's value
findPossibleCaptures(card, tableCards) ==
  LET cardValue == rankValue(card.rank)
      matches(tableItem) ==
        \/ tableItem.type = "loose" /\ rankValue(tableItem.rank) = cardValue
        \/ tableItem.type = "build" /\ tableItem.value = cardValue
      capture(tableItem) ==
        [type |-> "capture",
         payload |-> IF tableItem.type = "loose"
                     THEN [draggedItem |-> [card |-> card, source |-> "hand"],
                           selectedTableCards |-> <<tableItem>>,
                           targetCard |-> tableItem]
                     ELSE [draggedItem |-> [card |-> card, source |-> "hand"],
                           targetCard |-> tableItem]]
  IN  MapFilter(tableCards, matches, capture)

\* the table items a list of actions proposes to capture
captureTargets(actions) ==
  {actions[k].payload.targetCard : k \in {i \in 1 .. Len(actions) : actions[i].type = "capture"}}

\* C33: for every hand card of the player to move, the table items that
\* determineActions and findPossibleCaptures propose to capture are exactly
\* those getCapturableCards returns, and none of them is a temporary stack
C33_CapturableAgreement ==
  \A c \in HandCards(gameState.currentPlayer) :
    LET capturable == SeqToSet(getCapturableCards(gameState.tableCards, c))
    IN  /\ \A targetInfo \in TargetInfos :
              captureTargets(Offered(c, targetInfo).actions) = capturable
        /\ captureTargets(findPossibleCaptures(c, gameState.tableCards)) = capturable
        /\ \A t \in capturable : t.type # "temporary_stack"

\* ------------------------------------------------ temporary-stack capture
\* the hand without its first card equal to c
handWithout(hand, c) ==
  RemoveAt(hand, FindIndex(hand, LAMBDA h : sameCard(h, c)))

\* C34: for every hand card of the player to move and every temporary stack
\* on the table, handleCaptureTemporaryStack with a card whose value equals
\* the stack's total takes the card out of the hand and the stack off the
\* table, appends the stack's cards followed by the card as one capture group
\* of the player and passes the turn; with a card of another value, or a card
\* that is not from the hand, it returns an error
C34_StackCapture ==
  \A c \in HandCards(gameState.currentPlayer) : \A stack \in TableItems("temporary_stack") :
    LET p == gameState.currentPlayer
        result == handleCaptureTemporaryStack(gameState, StackCard(c, "hand"), stack)
        fromTable == handleCaptureTemporaryStack(gameState, StackCard(c, "table"), stack)
        group == [k \in 1 .. Len(stack.cards) |-> CardOf(stack.cards[k])] \o <<CardOf(c)>>
    IN  /\ IsError(fromTable)
        /\ IF <<rankValue(c.rank)>> = stack.totalValue
           THEN /\ ~IsError(result)
                /\ result.playerHands[p] = handWithout(gameState.playerHands[p], c)
                /\ result.playerHands[1 - p] = gameState.playerHands[1 - p]
                /\ result.tableCards
                     = SelectSeq(gameState.tableCards, LAMBDA t : t # stack)
                /\ result.playerCaptures[p] = Append(gameState.playerCaptures[p], group)
                /\ result.playerCaptures[1 - p] = gameState.playerCaptures[1 - p]
                /\ result.currentPlayer = 1 - p
           ELSE IsError(result)

\* ------------------------------------------------------------ stack totals
RECURSIVE sumOfValues(_)
sumOfValues(cards) ==
  IF cards = <<>> THEN 0 ELSE rankValue(Head(cards).rank) + sumOfValues(Tail(cards))

\* C35: a temporary stack made of table cards starts with its two cards, the
\* larger first, and after every add its totalValue is the sum of the rank
\* values of the cards it holds
C35_StackTotal ==
  \A stack \in TableItems("temporary_stack") :
    stack.cards[1].source = "table" /\ stack.cards[2].source = "table"
    => /\ stack.totalValue # null
       /\ stack.totalValue = <<sumOfValues(stack.cards)>>
       /\ rankValue(stack.cards[1].rank) >= rankValue(stack.cards[2].rank)

\* ------------------------------------------------------ validateGameState
\* JavaScript values as validateGameState can be handed them: undefined, null,
\* a number, an array of values, an object with some properties
jsUndefined == [t |-> "undefined"]

jsNull == [t |-> "null"]

jsNumber(n) == [t |-> "number", v |-> n]

jsString(str) == [t |-> "string", v |-> str]

jsArray(elements) == [t |-> "array", v |-> elements]

jsObject(properties) == [t |-> "object", v |-> properties]

\* !x
falsy(x) ==
  \/ x.t \in {"undefined", "null"}
  \/ x.t = "number" /\ x.v = 0
  \/ x.t = "string" /\ x.v = ""

\* does reading a property of x raise a TypeError
cannotRead(x) == x.t \in {"undefined", "null"}

\* x.name for an x that can be read
property(x, name) ==
  IF x.t = "object" /\ name \in DOMAIN x.v THEN x.v[name] ELSE jsUndefined

\* x[i], i counted from 0, for an x that can be read
element(x, i) ==
  IF x.t = "array" /\ i < Len(x.v) THEN x.v[i + 1] ELSE jsUndefined

isArrayOfLength(x, n) == x.t = "array" /\ Len(x.v) = n

\* the errors validateCards pushes for one location
validateCards(cards, location) ==
  IF cards.t # "array" THEN <<location \o " must be an array">>
  ELSE Flatten([index \in 1 .. Len(cards.v) |->
         LET card == cards.v[index]
         IN  IF falsy(card) \/ card.t \notin {"object", "array"}
             THEN <<location \o " element is not a valid card object">>
             ELSE IF \/ falsy(property(card, "suit"))
                     \/ falsy(property(card, "rank"))
                     \/ property(card, "value").t # "number"
             THEN <<location \o " element missing required card properties">>
             ELSE <<>>])

validateGameState(gs) ==
  IF falsy(gs)
  THEN [valid |-> FALSE, errors |-> <<"Game state is null or undefined">>, thrown |-> FALSE]
  ELSE
    LET playerHands == property(gs, "playerHands")
        currentPlayer == property(gs, "currentPlayer")
        required ==
          (IF ~isArrayOfLength(playerHands, NumPlayers)
           THEN <<"playerHands must be an array of 2 elements">> ELSE <<>>)
          \o (IF property(gs, "tableCards").t # "array"
              THEN <<"tableCards must be an array">> ELSE <<>>)
          \o (IF ~isArrayOfLength(property(gs, "playerCaptures"), NumPlayers)
              THEN <<"playerCaptures must be an array of 2 elements">> ELSE <<>>)
          \o (IF currentPlayer.t # "number" \/ currentPlayer.v < 0 \/ currentPlayer.v > 1
              THEN <<"currentPlayer must be 0 or 1">> ELSE <<>>)
    IN  IF cannotRead(playerHands)
        THEN [valid |-> FALSE, errors |-> required, thrown |-> TRUE]
        ELSE LET errors ==
                   required
                   \o validateCards(element(playerHands, 0), "playerHands[0]")
                   \o validateCards(element(playerHands, 1), "playerHands[1]")
                   \o validateCards(property(gs, "deck"), "deck")
             IN  [valid |-> errors = <<>>, errors |-> errors, thrown |-> FALSE]

\* the values tried for a card, for an array of cards and for each field
CardValues ==
  {jsObject([suit |-> jsString("S"), rank |-> jsString("A"), value |-> jsNumber(1)]),
   jsObject([suit |-> jsString("S"), rank |-> jsString("A")]),
   jsNull}

CardArrays == {jsUndefined, jsNumber(1), jsArray(<<>>)} \cup {jsArray(<<c>>) : c \in CardValues}

HandsValues ==
  {jsUndefined, jsNull, jsNumber(1), jsArray(<<jsArray(<<>>)>>)}
  \cup {jsArray(<<a, jsArray(<<>>)>>) : a \in CardArrays}

PlainArrays == {jsUndefined, jsArray(<<>>), jsArray(<<jsArray(<<>>), jsArray(<<>>)>>)}

CurrentPlayerValues == {jsUndefined, jsNumber(-1), jsNumber(0), jsNumber(1), jsNumber(2)}

GameStateValues ==
  {jsNull, jsUndefined}
  \cup {jsObject([playerHands |-> h, tableCards |-> t, playerCaptures |-> c,
                  currentPlayer |-> p, deck |-> d]) :
          h \in HandsValues, t \in PlainArrays, c \in PlainArrays,
          p \in CurrentPlayerValues, d \in CardArrays}

\* a caller holds a value to validate
InitValidateState ==
  /\ gameState = null
  /\ \E input \in GameStateValues :
        lastAction = [type |-> "input", player |-> 0, result |-> "accepted",
                      changed |-> FALSE, input |-> input]
  /\ clock = 1
  /\ steps = 0
  /\ inflight = <<>>
  /\ gameStarted

\* the caller calls validateGameState on it
ValidateGameState ==
  /\ lastAction.type = "input"
  /\ lastAction' = [type |-> "validateGameState", player |-> 0, result |-> "accepted",
                     changed |-> FALSE, input |-> lastAction.input,
                     returned |-> validateGameState(lastAction.input)]
  /\ UNCHANGED <<gameState, clock, steps, inflight, waitingPlayers, sockets>>

NextValidateState == ValidateGameState

SpecValidateState == InitValidateState /\ [][NextValidateState]_vars

\* an array whose elements are all card objects with suit, rank and a number
\* as value
cardArray(x) ==
  /\ x.t = "array"
  /\ \A k \in 1 .. Len(x.v) :
        /\ x.v[k].t = "object"
        /\ {"suit", "rank", "value"} \subseteq DOMAIN x.v[k].v
        /\ x.v[k].v.value.t = "number"

\* the structure validateGameState checks for
wellFormed(gs) ==
  /\ gs.t = "object"
  /\ isArrayOfLength(property(gs, "playerHands"), NumPlayers)
  /\ property(gs, "tableCards").t = "array"
  /\ isArrayOfLength(property(gs, "playerCaptures"), NumPlayers)
  /\ property(gs, "currentPlayer") \in {jsNumber(0), jsNumber(1)}
  /\ cardArray(element(property(gs, "playerHands"), 0))
  /\ cardArray(element(property(gs, "playerHands"), 1))
  /\ cardArray(property(gs, "deck"))

\* C36: validateGameState never throws: for every input it returns valid and
\* errors, valid being true exactly for a well-formed state and a false valid
\* coming with at least one error
C36_ValidateReports ==
  lastAction.type = "validateGameState"
  => /\ ~lastAction.returned.thrown
     /\ lastAction.returned.valid <=> wellFormed(lastAction.input)
     /\ ~lastAction.returned.valid => Len(lastAction.returned.errors) >= 1

\* --------------------------------------------------- staging across turns
\* C37: the player who is not to move owns no temporary stack: no action that
\* passes the turn leaves the acting player's stack on the table
C37_NoStagingAcrossTurns ==
  \A stack \in TableItems("temporary_stack") : stack.owner = gameState.currentPlayer

stacksOf(tableCards) ==
  {tableCards[i] : i \in {k \in 1 .. Len(tableCards) : tableCards[k].type = "temporary_stack"}}

\* is card c loose on the table
looseOn(tableCards, c) ==
  \E i \in 1 .. Len(tableCards) : tableCards[i].type = "loose" /\ sameCard(tableCards[i], c)

\* C39: a temporary stack that an accepted tableCardDrop creates holds two
\* different cards, both loose on the table before the drop and neither loose
\* on it after; and a loose card dropped onto itself leaves the state as it is
C39_DistinctCardsDrop ==
  [][/\ (lastAction'.type = "tableCardDrop" /\ lastAction'.result = "accepted"
           /\ steps' = steps + 1)
          => \A stack \in stacksOf(gameState'.tableCards) \ stacksOf(gameState.tableCards) :
                Len(stack.cards) = 2
                => /\ ~sameCard(stack.cards[1], stack.cards[2])
                   /\ \A k \in 1 .. 2 :
                         /\ looseOn(gameState.tableCards, stack.cards[k])
                         /\ ~looseOn(gameState'.tableCards, stack.cards[k])
     /\ \A c \in TableItems("loose") :
          handleTableCardDrop(gameState, c, c, clock) = gameState]_vars

\* -------------------------------------------------------------- termination
\* the cards player p can still play: the hand and the hand cards staged in
\* the player's temporary stacks
cardsToPlay(gs, p) ==
  Len(gs.playerHands[p])
  + Len(Flatten([i \in 1 .. Len(gs.tableCards) |->
                   IF gs.tableCards[i].type = "temporary_stack" /\ gs.tableCards[i].owner = p
                   THEN SelectSeq(gs.tableCards[i].cards, LAMBDA c : c.source = "hand")
                   ELSE <<>>]))

\* C40: every accepted action that passes the turn uses up exactly one of the
\* acting player's cards to play, the opponent's stay as they are, and the
\* game is over only after one redeal, in round 2
C40_Termination ==
  [][/\ (steps' = steps + 1 /\ lastAction'.result = "accepted"
           /\ lastAction'.type \in TurnAdvancing)
          => LET p == gameState.currentPlayer
             IN  /\ cardsToPlay(gameState', p) = cardsToPlay(gameState, p) - 1
                 /\ cardsToPlay(gameState', 1 - p) = cardsToPlay(gameState, 1 - p)
     /\ gameState'.gameOver => gameState'.round = 2]_vars
====
